---- MODULE Spec2Model ----
(***************************************************************************)
(* Governance layer of the AutoTriage agent: confidence scoring            *)
(* (app/agents/confidence.py), plan auditing (app/agents/plan_auditor.py), *)
(* the CI retry policy and watcher (app/ci/retry_engine.py,                *)
(* app/ci/ci_watcher.py) and the job pipeline with its control plane       *)
(* (app/agents/agent_runner.py, app/api.py).                               *)
(*                                                                         *)
(* Each component has its own specification over the shared variables;     *)
(* a component's specification leaves the other components' variables at   *)
(* their idle values.                                                      *)
(***************************************************************************)
EXTENDS Integers, Sequences, FiniteSets, TLC

VARIABLES
    \* ---- confidence.py ----
    x,              \* the ConfidenceInputs value under evaluation
    score,          \* compute_confidence(x) in hundredths once scored is TRUE
    scored,         \* whether compute_confidence has returned for x
    \* ---- plan_auditor.py ----
    plan,           \* the ExecutionPlan handed to audit_plan: [steps, notes]
    policy,         \* the ModePolicy handed to audit_plan
    apc,            \* "build" while the plan is being drawn, "audited" after audit_plan
    audited,        \* audit_plan(plan, policy)
    reaudited,      \* audit_plan(audited, policy)
    \* ---- the job row and its event log (storage/artifact_store.py) ----
    status,         \* agent_jobs.status of the job
    events,         \* job_events of the job, in insertion order: [type, payload]
    repo_path,      \* the checkout recorded for the job, "" before the first run
    action,         \* agent_jobs.action of the job
    \* ---- run_agent_pipeline (agents/agent_runner.py), one invocation ----
    ppc,            \* position of the pipeline thread
    pjob,           \* job["status"] as read at agent_runner.py:83
    pconf,          \* confidence of the classified intent, in hundredths
    psteps,         \* steps of the audited plan under execution
    pidx,           \* index of the next step to execute
    pwrites,        \* statuses this invocation has written, in order
    perrors,        \* ERROR events this invocation has appended
    poutcome,       \* how the invocation ended: "completed", "aborted", "failed"
    statusAtReturn, \* the job's status at the moment the invocation returned
    runs,           \* invocations started so far
    \* ---- control plane (api.py job_action) ----
    ctlCount,       \* control requests made so far
    abortStanding,  \* an abort wrote ABORTED during the present invocation and
                    \* no later control request has changed the status
    \* ---- retry policy (ci/retry_engine.py) ----
    evidence,       \* the parsed CI evidence handed to classify_ci_outcome
    attempts_in,    \* previous_attempts handed to should_retry_from_ci
    outcome,        \* the CIOutcome, NoOutcome while missing
    decision,       \* the RetryDecision
    rpc,            \* "start", "classified", "decided"
    \* ---- CI watcher (ci/ci_watcher.py), one pull request ----
    ci_mode,        \* config.CI_MODE of the process
    has_retry_api,  \* whether the store offers get/store_retry_status
    retry_state,    \* the stored retry state of the pull request
    commits,        \* re-patch commits pushed to the branch so far
    cycles,         \* poll cycles run so far
    last_read,      \* previous_attempts as read by the latest cycle
    commits_at_read, \* commits already made when the latest cycle read it
    only_retryable, \* every failure classified so far was infra or flaky
    wpath,          \* the exit the latest cycle took
    \* ---- issue pipeline (main.py run), one issue ----
    istore_api,     \* whether the store offers get/store_retry_status
    iretry,         \* the stored retry state of the issue
    ibefore,        \* the stored retry state when the latest pass began
    iprev,          \* previous_attempts as read by the latest pass
    ichange,        \* what the latest pass did with the generated change
    ipath,          \* the exit the latest pass took
    iruns,          \* passes over the issue so far
    \* ---- policy resolver (agents/engineering_mode.py), two intents ----
    intent_a,       \* the first intent object
    intent_b,       \* the second intent object
    policy_a,       \* resolve_engineering_mode(intent_a)
    policy_b,       \* resolve_engineering_mode(intent_b)
    mpc,            \* "start", "resolved"
    \* ---- starters of run_agent_pipeline for one job (api.py run_job, ----
    \* ---- dashboard_server.py job_worker)                            ----
    jstatus,        \* agent_jobs.status of the job
    japproved,      \* an APPROVED event is in the job's event log
    spc,            \* position of each thread that can run the pipeline
    \* ---- job_events rows of one job (storage/artifact_store.py) ----
    rows,           \* the rows in insertion order: [id, fmt, sec]
    clock,          \* the wall clock, in seconds
    listing,        \* ids returned by the latest get_job_events
    \* ---- safety verifier (analysis/safety_verifier.py), one change ----
    old_content,    \* the file before the change, as its sequence of lines
    new_content,    \* the file after the change
    verdict,        \* verify_safe_change for each line budget: [ok, reason]
    \* ---- failure diagnosis (agents/failure_diagnoser.py), one failure ----
    fctx,           \* the FailureContext: [op, exception_message, trace_tail]
    diagnosis,      \* diagnose_failure(fctx): [category, retryable]
    \* ---- a blocking wait of JobControl over the job's event log ----
    wlog,           \* types of the job's events, in the order appended
    wstatus,        \* agent_jobs.status of the job
    waiter,         \* the waiting pipeline thread: [pc, kind, opened]
    \* ---- proposal gate (agents/proposal_engine.py), one decision ----
    gin,            \* the keyword arguments of should_enter_proposal_mode
    gmode,           \* the mode of the ProposalDecision, "" before the call
    \* ---- strict planner (agents/strict_planner.py), two calls with one action ----
    paction,        \* the action handed to both calls
    pargs_a,        \* [prompt, intent_obj, repo_facts] of the first call
    pargs_b,        \* [prompt, intent_obj, repo_facts] of the second call
    pplan_a,        \* the ExecutionPlan of the first call
    pplan_b,         \* the ExecutionPlan of the second call
    \* ---- block_with_question against provide_input requests (agents/job_control.py, api.py) ----
    blog,           \* types of the job's events, in the order appended
    bstatus,        \* agent_jobs.status of the job
    bpipe,          \* position of the pipeline thread
    breq,            \* the provide_input requests: [pc, seen], seen the status read at api.py:196
    \* ---- status and event log of one job under concurrent writers (storage/artifact_store.py) ----
    tstatus,        \* agent_jobs.status of the job
    tlog,           \* job_events of the job, in insertion order: [type, payload]
    tpipe,          \* position of the thread that runs the job's pipeline
    treq,           \* the concurrent requests: [kind, pc]
    twriter         \* who wrote tstatus last: "enqueue", "pipeline", "control", "init_db"

confVars  == <<x, score, scored>>
auditVars == <<plan, policy, apc, audited, reaudited>>
jobVars   == <<status, events, repo_path, action>>
pipeVars  == <<ppc, pjob, pconf, psteps, pidx, pwrites, perrors, poutcome,
               statusAtReturn, runs>>
ctlVars   == <<ctlCount, abortStanding>>
retryVars == <<evidence, attempts_in, outcome, decision, rpc>>
watchVars == <<ci_mode, has_retry_api, retry_state, commits, cycles,
               last_read, commits_at_read, only_retryable, wpath>>
issueVars == <<istore_api, iretry, ibefore, iprev, ichange, ipath, iruns>>
modeVars  == <<intent_a, intent_b, policy_a, policy_b, mpc>>
startVars == <<jstatus, japproved, spc>>
eventVars == <<rows, clock, listing>>
safetyVars == <<old_content, new_content, verdict>>
diagVars  == <<fctx, diagnosis>>
waitVars  == <<wlog, wstatus, waiter>>
gateVars == <<gin, gmode>>
plannerVars == <<paction, pargs_a, pargs_b, pplan_a, pplan_b>>
blockVars == <<blog, bstatus, bpipe, breq>>
trailVars == <<tstatus, tlog, tpipe, treq, twriter>>
vars      == <<x, score, scored, plan, policy, apc, audited, reaudited,
               status, events, repo_path, action,
               ppc, pjob, pconf, psteps, pidx, pwrites, perrors, poutcome,
               statusAtReturn, runs, ctlCount, abortStanding,
               evidence, attempts_in, outcome, decision, rpc,
               ci_mode, has_retry_api, retry_state, commits, cycles,
               last_read, commits_at_read, only_retryable, wpath,
               istore_api, iretry, ibefore, iprev, ichange, ipath, iruns,
               intent_a, intent_b, policy_a, policy_b, mpc,
               jstatus, japproved, spc, rows, clock, listing,
               old_content, new_content, verdict, fctx, diagnosis,
               wlog, wstatus, waiter,
               gin, gmode,
               paction, pargs_a, pargs_b, pplan_a, pplan_b,
               blog, bstatus, bpipe, breq,
               tstatus, tlog, tpipe, treq, twriter>>

-----------------------------------------------------------------------------
(***************************************************************************)
(* app/agents/confidence.py                                                *)
(*                                                                         *)
(* Scores are kept in hundredths (0.30 is 30): every term of the sum is a  *)
(* multiple of 0.05, and on every input class the float result of the      *)
(* Python code is within 1e-15 of the integer one and equals 1.0 exactly   *)
(* when the integer one is 100.                                            *)
(***************************************************************************)
\* Integer inputs: counts and line numbers around every threshold of the code
\* (1; 0 and 3; 300 and 800), with negative and very large values.
MaxCount == 4
CountValues    == -1 .. MaxCount
FileLineValues == {-1, 0, 120, 300, 301, 800, 801, 2147483647}

ConfidenceInputs ==
    [used_stack_trace : BOOLEAN,
     stack_trace_function_resolved : BOOLEAN,
     changed_files_count : CountValues,
     impacted_files_count : CountValues,
     ast_verified : BOOLEAN,
     safety_verified : BOOLEAN,
     used_llm : BOOLEAN,
     used_rule_based : BOOLEAN,
     file_lines : FileLineValues]

\* confidence.py:34-76, the additive score before clamping
RawScore(i) ==
      (IF i.used_stack_trace THEN 30 ELSE 10)
    + (IF i.stack_trace_function_resolved THEN 10 ELSE 0)
    + (IF i.ast_verified THEN 20 ELSE 0)
    + (IF i.safety_verified THEN 20 ELSE 0)
    + (IF i.used_rule_based THEN 15 ELSE 0)
    - (IF i.used_llm THEN 15 ELSE 0)
    + (IF i.changed_files_count = 1 THEN 5 ELSE -30)
    + (IF i.impacted_files_count = 0 THEN 5
       ELSE IF i.impacted_files_count <= 3 THEN 0 ELSE -20)
    + (IF i.file_lines <= 300 THEN 5
       ELSE IF i.file_lines <= 800 THEN 0 ELSE -10)

NoClamp(s) == s

\* confidence.py:78-82
Clamp(s) == IF s < 0 THEN 0 ELSE IF s > 100 THEN 100 ELSE s

\* confidence.py:86-95, the eight gates
Perfect(i) ==
    /\ i.used_stack_trace
    /\ i.changed_files_count = 1
    /\ i.impacted_files_count = 0
    /\ i.ast_verified
    /\ i.safety_verified
    /\ i.used_rule_based
    /\ ~i.used_llm
    /\ i.file_lines <= 300

\* confidence.py:19-96
compute_confidence(i) == IF Perfect(i) THEN 100 ELSE Clamp(RawScore(i))

-----------------------------------------------------------------------------
(***************************************************************************)
(* app/agents/plan_auditor.py                                              *)
(*                                                                         *)
(* A PlanStep is [op, arg]: arg is the "status" argument of SET_STATUS,    *)
(* the "path" argument of a file-mutation step, the repo facts of          *)
(* ANALYZE_REPO, and "" otherwise.  Notes are the sequence of segments     *)
(* that the code joins with " | ".                                         *)
(***************************************************************************)
FILE_MUTATION_OPS ==
    {"CREATE_FILE", "EDIT_FILE", "APPLY_PATCH", "DELETE_FILE", "APPEND_FILE"}

VERIFY_OPS == {"VERIFY_CMD", "VERIFY_FILE_EXISTS", "VERIFY_HTTP_ENDPOINT"}

PlanStep(op, arg) == [op |-> op, arg |-> arg]

ExecutionPlan(steps, notes) == [steps |-> steps, notes |-> notes]

\* str.strip() on the path values of the model
Strip(path) ==
    CASE path = "a "  -> "a"
      [] path = " "   -> ""
      [] OTHER        -> path

\* plan_auditor.py:41-42
plan_has_op(p, op) == \E i \in 1 .. Len(p.steps) : p.steps[i].op = op

\* plan_auditor.py:45-63
collect_mutation_paths(p) ==
    LET muts == {i \in 1 .. Len(p.steps) : p.steps[i].op \in FILE_MUTATION_OPS}
    IN  [count |-> Cardinality(muts),
         paths |-> {Strip(p.steps[i].arg) : i \in muts} \ {""}]

\* index of the first step satisfying op, 0 when there is none
FirstIndex(steps, op) ==
    IF \E i \in 1 .. Len(steps) : steps[i].op = op
    THEN CHOOSE i \in 1 .. Len(steps) :
            /\ steps[i].op = op
            /\ \A j \in 1 .. (i - 1) : steps[j].op # op
    ELSE 0

Range(f) == {f[i] : i \in DOMAIN f}

IsProposed(s) == s.op = "SET_STATUS" /\ s.arg = "PROPOSED"

InsertAt(steps, i, ins) == SubSeq(steps, 1, i - 1) \o ins \o SubSeq(steps, i, Len(steps))

\* mutant: the gate that injects its steps without looking for an existing
\* WAIT_FOR_APPROVAL
ensure_gate_always_injects(p) ==
    IF \A i \in 1 .. Len(p.steps) : p.steps[i].op # "COMMIT_PUSH_PR" THEN p
    ELSE [steps |-> InsertAt(p.steps, FirstIndex(p.steps, "COMMIT_PUSH_PR"),
                             << [op |-> "SET_STATUS", arg |-> "PROPOSED"],
                                [op |-> "WAIT_FOR_APPROVAL", arg |-> ""] >>),
          notes |-> p.notes]

\* plan_auditor.py:66-111
ensure_pr_approval_gate(p) ==
    IF ~plan_has_op(p, "COMMIT_PUSH_PR") THEN p
    ELSE
      LET steps    == p.steps
          pr_idx   == FirstIndex(steps, "COMMIT_PUSH_PR")
          has_wait == \E i \in 1 .. pr_idx : steps[i].op = "WAIT_FOR_APPROVAL"
      IN  IF has_wait
          THEN LET wait_idx == FirstIndex(steps, "WAIT_FOR_APPROVAL")
                   has_proposed_before ==
                       \E i \in 1 .. (wait_idx - 1) : IsProposed(steps[i])
               IN  IF has_proposed_before THEN ExecutionPlan(steps, p.notes)
                   ELSE ExecutionPlan(
                          InsertAt(steps, wait_idx,
                                   <<PlanStep("SET_STATUS", "PROPOSED")>>),
                          p.notes)
          ELSE LET insert ==
                       (IF plan_has_op(p, "CAPTURE_DIFF") THEN <<>>
                        ELSE <<PlanStep("CAPTURE_DIFF", "")>>)
                       \o <<PlanStep("SET_STATUS", "PROPOSED"),
                            PlanStep("WAIT_FOR_APPROVAL", "")>>
               IN  ExecutionPlan(InsertAt(steps, pr_idx, insert), p.notes)

AuditNote(tag, reason, post, removed) ==
    [tag |-> tag, reason |-> reason, post |-> post, removed |-> removed]

\* plan_auditor.py:114-131 (the plan of the AuditResult)
force_fail(p, note) ==
    ExecutionPlan(
        << IF Len(p.steps) > 0 /\ p.steps[1].op = "ANALYZE_REPO"
           THEN p.steps[1] ELSE PlanStep("ANALYZE_REPO", ""),
           PlanStep("SET_STATUS", "FAILED") >>,
        p.notes \o <<note>>)

\* mutant: the rewrite that removes DELETE_FILE steps only
strip_delete_only(p, disallowed) ==
    [plan    |-> ExecutionPlan(
                   SelectSeq(p.steps, LAMBDA s : s.op # "DELETE_FILE"), p.notes),
     removed |-> SelectSeq([i \in 1 .. Len(p.steps) |-> p.steps[i].op],
                           LAMBDA o : o = "DELETE_FILE")]

\* plan_auditor.py:134-149
strip_disallowed_ops(p, disallowed) ==
    [plan    |-> ExecutionPlan(
                   SelectSeq(p.steps, LAMBDA s : s.op \notin disallowed), p.notes),
     removed |-> SelectSeq([i \in 1 .. Len(p.steps) |-> p.steps[i].op],
                           LAMBDA o : o \in disallowed)]

NoErr == ""

\* mutant: the scope check that looks at the number of steps only
audit_scope_steps_only(p, pol) ==
    IF Len(p.steps) > pol.max_steps THEN "plan too large" ELSE NoErr

\* plan_auditor.py:152-163
audit_scope(p, pol) ==
    LET m == collect_mutation_paths(p)
    IN  IF Len(p.steps) > pol.max_steps THEN "plan too large"
        ELSE IF m.count > pol.max_file_mutations THEN "too many file mutations"
        ELSE IF Cardinality(m.paths) > pol.max_unique_paths_mutated
             THEN "too many unique files touched"
        ELSE NoErr

\* plan_auditor.py:166-171
audit_permissions(p, pol) ==
    IF ~pol.allow_delete_file /\ plan_has_op(p, "DELETE_FILE")
    THEN "DELETE_FILE not allowed in this mode"
    ELSE IF ~pol.allow_apply_patch /\ plan_has_op(p, "APPLY_PATCH")
    THEN "APPLY_PATCH not allowed in this mode"
    ELSE NoErr

\* plan_auditor.py:174-177
audit_pr_governance(p, pol) ==
    IF pol.require_approval_before_pr THEN ensure_pr_approval_gate(p) ELSE p

\* mutant: the permission rewrite that keeps a stripped plan of one or two
\* steps as long as one of them is real work
PermissionRewriteNoMinimum(p, pol) ==
    LET perm_err == audit_permissions(p, pol)
    IN  IF perm_err = NoErr THEN [fail |-> FALSE, plan |-> p]
        ELSE
          LET disallowed ==
                  (IF pol.allow_delete_file THEN {} ELSE {"DELETE_FILE"})
                  \cup (IF pol.allow_apply_patch THEN {} ELSE {"APPLY_PATCH"})
              r == strip_disallowed_ops(p, disallowed)
              meaningful ==
                  \E i \in 1 .. Len(r.plan.steps) :
                      r.plan.steps[i].op \notin {"ANALYZE_REPO", "SET_STATUS"}
          IN  IF ~meaningful
              THEN [fail |-> TRUE,
                    plan |-> force_fail(p, AuditNote("AUDIT_FAIL", perm_err,
                                                     FALSE, r.removed))]
              ELSE [fail |-> FALSE,
                    plan |-> ExecutionPlan(
                               r.plan.steps,
                               r.plan.notes
                                 \o <<AuditNote("AUDIT_REWRITE", pol.name,
                                                FALSE, r.removed)>>)]

\* plan_auditor.py:197-224, the permission rewrite; fail is TRUE when the
\* rewrite left no meaningful work and the original plan is forced to fail
PermissionRewrite(p, pol) ==
    LET perm_err == audit_permissions(p, pol)
    IN  IF perm_err = NoErr THEN [fail |-> FALSE, plan |-> p]
        ELSE
          LET disallowed ==
                  (IF pol.allow_delete_file THEN {} ELSE {"DELETE_FILE"})
                  \cup (IF pol.allow_apply_patch THEN {} ELSE {"APPLY_PATCH"})
              r == strip_disallowed_ops(p, disallowed)
              meaningful ==
                  \E i \in 1 .. Len(r.plan.steps) :
                      r.plan.steps[i].op \notin {"ANALYZE_REPO", "SET_STATUS"}
          IN  IF ~meaningful \/ Len(r.plan.steps) <= 2
              THEN [fail |-> TRUE,
                    plan |-> force_fail(p, AuditNote("AUDIT_FAIL", perm_err,
                                                     FALSE, r.removed))]
              ELSE [fail |-> FALSE,
                    plan |-> ExecutionPlan(
                               r.plan.steps,
                               r.plan.notes
                                 \o <<AuditNote("AUDIT_REWRITE", pol.name,
                                                FALSE, r.removed)>>)]

\* plan_auditor.py:234-246
VerificationNote(p, pol) ==
    IF /\ pol.require_verification_for_pr
       /\ plan_has_op(p, "COMMIT_PUSH_PR")
       /\ ~(\E i \in 1 .. Len(p.steps) : p.steps[i].op \in VERIFY_OPS)
       /\ pol.require_approval_before_pr
    THEN ExecutionPlan(
           p.steps,
           p.notes \o <<AuditNote("AUDIT_NOTE",
                          "no VERIFY ops present; relying on approval gate",
                          FALSE, <<>>)>>)
    ELSE p

\* mutant: the audit that does not look at the scope again after the
\* governance steps were injected
audit_plan_without_recheck(p, pol) ==
    LET scope_err == audit_scope(p, pol)
    IN  IF scope_err # NoErr
        THEN force_fail(p, AuditNote("AUDIT_FAIL", scope_err, FALSE, <<>>))
        ELSE
          LET rw == PermissionRewrite(p, pol)
          IN  IF rw.fail THEN rw.plan
              ELSE VerificationNote(audit_pr_governance(rw.plan, pol), pol)

\* plan_auditor.py:180-248
audit_plan(p, pol) ==
    LET scope_err == audit_scope(p, pol)
    IN  IF scope_err # NoErr
        THEN force_fail(p, AuditNote("AUDIT_FAIL", scope_err, FALSE, <<>>))
        ELSE
          LET rw == PermissionRewrite(p, pol)
          IN  IF rw.fail THEN rw.plan
              ELSE
                LET gated      == audit_pr_governance(rw.plan, pol)
                    scope_err2 == audit_scope(gated, pol)
                IN  IF scope_err2 # NoErr
                    THEN force_fail(gated, AuditNote("AUDIT_FAIL", scope_err2,
                                                     TRUE, <<>>))
                    ELSE VerificationNote(gated, pol)

-----------------------------------------------------------------------------
(***************************************************************************)
(* agents/engineering_mode.py, agents/strict_planner.py,                   *)
(* agents/allowed_ops.py                                                   *)
(***************************************************************************)
ModePolicy(name, steps, muts, paths, del, patch, approval) ==
    [name |-> name, max_steps |-> steps, max_file_mutations |-> muts,
     max_unique_paths_mutated |-> paths, allow_delete_file |-> del,
     allow_apply_patch |-> patch, require_approval_before_pr |-> approval,
     require_verification_for_pr |-> TRUE]

resolve_mode_standard_wide(c) ==
    IF c < 55 THEN ModePolicy("SAFE", 18, 3, 2, FALSE, FALSE, TRUE)
    ELSE IF c < 80 THEN ModePolicy("STANDARD", 80, 8, 6, FALSE, FALSE, TRUE)
    ELSE ModePolicy("AGGRESSIVE", 70, 20, 15, TRUE, TRUE, FALSE)

\* engineering_mode.py:43-87, c in hundredths
resolve_engineering_mode(c) ==
    IF c < 55 THEN ModePolicy("SAFE", 18, 3, 2, FALSE, FALSE, TRUE)
    ELSE IF c < 80 THEN ModePolicy("STANDARD", 35, 8, 6, FALSE, FALSE, TRUE)
    ELSE ModePolicy("AGGRESSIVE", 70, 20, 15, TRUE, TRUE, FALSE)

\* a Python float: NaN, or the number v in hundredths
Float(v) == [nan |-> FALSE, v |-> v]
NaN      == [nan |-> TRUE, v |-> 0]

\* engineering_mode.py:34-40 on an intent object [kind, conf, v]: 0.0 for
\* what is not a dict, the default 0.0 for a dict without the key, 0.0 when
\* float() raises (None: TypeError, a non-numeric string: ValueError), and
\* float(value) otherwise, NaN included
get_confidence(intent_obj) ==
    IF intent_obj.kind # "dict" THEN Float(0)
    ELSE IF intent_obj.conf \in { "absent", "none", "string" } THEN Float(0)
    ELSE IF intent_obj.conf = "nan" THEN NaN
    ELSE Float(intent_obj.v)

\* engineering_mode.py:43-87 on an intent object: c < 0.55 and c < 0.80 are
\* both false for NaN, which falls through to the last return
resolve_engineering_mode_intent(intent_obj) ==
    LET c == get_confidence(intent_obj)
    IN  IF c.nan THEN ModePolicy("AGGRESSIVE", 70, 20, 15, TRUE, TRUE, FALSE)
        ELSE resolve_engineering_mode(c.v)

\* strict_planner.py:37-126
build_execution_plan_strict(act) ==
    LET analyze == PlanStep("ANALYZE_REPO", "facts")
        prTail  == << PlanStep("CAPTURE_DIFF", ""),
                      PlanStep("SET_STATUS", "PROPOSED"),
                      PlanStep("WAIT_FOR_APPROVAL", ""),
                      PlanStep("COMMIT_PUSH_PR", "") >>
    IN  CASE act \in {"fix_bugs", "run_tests"} ->
               ExecutionPlan(<< analyze, PlanStep("RUN_TESTS_SAFE", ""),
                                PlanStep("SET_STATUS", "COMPLETED") >>, <<>>)
          [] act = "refactor" ->
               ExecutionPlan(<< analyze, PlanStep("FORMAT_BLACK", "."),
                                PlanStep("CAPTURE_DIFF", ""),
                                PlanStep("SET_STATUS", "COMPLETED") >>, <<>>)
          [] act = "add_feature" ->
               ExecutionPlan(<< analyze, PlanStep("SET_STATUS", "FAILED") >>,
                             << AuditNote("PLANNER",
                                  "add_feature requires audit approval",
                                  FALSE, <<>>) >>)
          [] act = "generate_project" ->
               ExecutionPlan(<< analyze, PlanStep("UPDATE_README", "") >>
                             \o prTail, <<>>)
          [] act = "create_pr" ->
               ExecutionPlan(<< analyze >> \o prTail, <<>>)
          [] OTHER ->
               ExecutionPlan(<< analyze, PlanStep("SET_STATUS", "FAILED") >>,
                             << AuditNote("PLANNER", "Unsupported action",
                                          FALSE, <<>>) >>)

\* allowed_ops.py:3-37
ALLOWED_OPS ==
    { "ANALYZE_REPO", "FORMAT_BLACK",
      "CREATE_FILE", "EDIT_FILE", "APPLY_PATCH", "DELETE_FILE", "APPEND_FILE",
      "SCAFFOLD_NODE_BACKEND", "ADD_ENV_EXAMPLE", "UPDATE_README",
      "RUN_TESTS_SAFE", "CAPTURE_DIFF",
      "VERIFY_CMD", "VERIFY_FILE_EXISTS", "VERIFY_HTTP_ENDPOINT",
      "SET_STATUS", "WAIT_FOR_APPROVAL", "COMMIT_PUSH_PR" }

-----------------------------------------------------------------------------
(***************************************************************************)
(* Idle values of each component's variables                               *)
(***************************************************************************)
NoPlan == ExecutionPlan(<<>>, <<>>)

IdlePolicy ==
    [name |-> "SAFE", max_steps |-> 18, max_file_mutations |-> 3,
     max_unique_paths_mutated |-> 2, allow_delete_file |-> FALSE,
     allow_apply_patch |-> FALSE, require_approval_before_pr |-> TRUE,
     require_verification_for_pr |-> TRUE]

IdleInputs ==
    [used_stack_trace |-> FALSE, stack_trace_function_resolved |-> FALSE,
     changed_files_count |-> 0, impacted_files_count |-> 0,
     ast_verified |-> FALSE, safety_verified |-> FALSE, used_llm |-> FALSE,
     used_rule_based |-> FALSE, file_lines |-> 0]

ConfIdle  == x = IdleInputs /\ score = 0 /\ scored = FALSE
AuditIdle == /\ plan = NoPlan /\ policy = IdlePolicy /\ apc = "idle"
             /\ audited = NoPlan /\ reaudited = NoPlan

PipelineIdle ==
    /\ status = "" /\ events = <<>> /\ repo_path = "" /\ action = ""
    /\ ppc = "idle" /\ pjob = "" /\ pconf = 0 /\ psteps = <<>> /\ pidx = 0
    /\ pwrites = <<>> /\ perrors = 0 /\ poutcome = "" /\ statusAtReturn = ""
    /\ runs = 0
    /\ ctlCount = 0 /\ abortStanding = FALSE

pipelineVars == <<jobVars, pipeVars, ctlVars>>

NoEvidence   == [excerpt |-> <<>>, n_files |-> 0, n_tests |-> 0]
NoOutcome    == [category |-> "None"]
NoDecision   == [should_retry |-> FALSE, reason |-> "", backoff_seconds |-> 0]
NoRetryState == [attempts |-> 0, last_outcome |-> "None", active |-> FALSE,
                 stored |-> FALSE]

RetryIdle ==
    /\ evidence = NoEvidence /\ attempts_in = 0 /\ outcome = NoOutcome
    /\ decision = NoDecision /\ rpc = "idle"

WatcherIdle ==
    /\ ci_mode = 0 /\ has_retry_api = FALSE /\ retry_state = NoRetryState
    /\ commits = 0 /\ cycles = 0 /\ last_read = 0 /\ commits_at_read = 0
    /\ only_retryable = TRUE /\ wpath = "idle"

CiIdle == RetryIdle /\ WatcherIdle

ciVars == <<retryVars, watchVars>>

\* main.py run: no pass over the issue has begun
NoRetryRow == [attempts |-> 0, none |-> FALSE, active |-> FALSE,
               stored |-> FALSE]
NoChange == [generated |-> FALSE, safe |-> FALSE, committed |-> FALSE,
             pushed |-> FALSE, pr |-> "none", proposal |-> FALSE,
             raised |-> FALSE, mode |-> "", strict |-> FALSE]
IssueIdle ==
    /\ istore_api = FALSE /\ iretry = NoRetryRow /\ ibefore = NoRetryRow
    /\ iprev = 0 /\ ichange = NoChange /\ ipath = "idle" /\ iruns = 0

\* engineering_mode.py: nothing to resolve
NoIntent == [kind |-> "missing", conf |-> "absent", v |-> 0]
ModeIdle ==
    /\ intent_a = NoIntent /\ intent_b = NoIntent
    /\ policy_a = IdlePolicy /\ policy_b = IdlePolicy /\ mpc = "idle"

\* no thread has been started for the job
StartIdle == jstatus = "" /\ japproved = FALSE /\ spc = <<>>

\* no event row has been written
EventIdle == rows = <<>> /\ clock = 0 /\ listing = <<>>

\* no change has been handed to the safety verifier
SafetyIdle == old_content = <<>> /\ new_content = <<>> /\ verdict = <<>>

\* no failure has been diagnosed
NoFailure == [op |-> "", exception_message |-> <<>>, trace_tail |-> <<>>]
NoDiagnosis == [category |-> "", retryable |-> FALSE]
DiagIdle == fctx = NoFailure /\ diagnosis = NoDiagnosis

\* no wait has been opened
NoWaiter == [pc |-> "idle", kind |-> "", opened |-> 0]
WaitIdle == wlog = <<>> /\ wstatus = "" /\ waiter = NoWaiter

\* no proposal decision has been asked for
NoGateInput ==
    [confidence |-> 0, changed_files_count |-> 0, impacted_files_count |-> 0,
     used_llm |-> FALSE, touches_sensitive_area |-> FALSE]
GateIdle == gin = NoGateInput /\ gmode = ""

\* the planner has not been called
NoPlannerArgs == [prompt |-> "", intent_obj |-> "None", repo_facts |-> "None"]
NoStrictPlan == [intent |-> "", action |-> "", steps |-> <<>>, notes |-> ""]
PlannerIdle ==
    /\ paction = "" /\ pargs_a = NoPlannerArgs /\ pargs_b = NoPlannerArgs
    /\ pplan_a = NoStrictPlan /\ pplan_b = NoStrictPlan

\* no question has been asked and no request made
BlockIdle == blog = <<>> /\ bstatus = "" /\ bpipe = "idle" /\ breq = <<>>

\* no job row has been written
TrailIdle ==
    /\ tstatus = "" /\ tlog = <<>> /\ tpipe = "idle" /\ treq = <<>>
    /\ twriter = ""

midVars == <<safetyVars, diagVars, waitVars>>
MidIdle == SafetyIdle /\ DiagIdle /\ WaitIdle
lastVars == <<gateVars, plannerVars, blockVars, trailVars>>
LastIdle == GateIdle /\ PlannerIdle /\ BlockIdle /\ TrailIdle
lateVars == <<midVars, lastVars>>
LateIdle == MidIdle /\ LastIdle

ExtIdle == IssueIdle /\ ModeIdle /\ StartIdle /\ EventIdle /\ LateIdle
extVars == <<issueVars, modeVars, startVars, eventVars, lateVars>>

-----------------------------------------------------------------------------
(***************************************************************************)
(* Specification of compute_confidence: any ConfidenceInputs, one call     *)
(***************************************************************************)
InitConfidence ==
    /\ x \in ConfidenceInputs
    /\ score = 0
    /\ scored = FALSE
    /\ AuditIdle
    /\ PipelineIdle
    /\ CiIdle /\ ExtIdle

ComputeConfidence ==
    /\ ~scored
    /\ score' = compute_confidence(x)
    /\ scored' = TRUE
    /\ UNCHANGED <<x, auditVars, pipelineVars, ciVars, extVars>>

NextConfidence == ComputeConfidence

SpecConfidence == InitConfidence /\ [][NextConfidence]_vars

-----------------------------------------------------------------------------
(***************************************************************************)
(* Specification of audit_plan: any plan of at most MaxPlanLen steps over  *)
(* StepValues, any policy of Policies; audit_plan is applied to the plan   *)
(* and then to its own result.                                             *)
(***************************************************************************)
MaxPlanLen == 4

StepValues ==
    { PlanStep("ANALYZE_REPO", "facts"),
      PlanStep("SET_STATUS", "PROPOSED"),
      PlanStep("WAIT_FOR_APPROVAL", ""),
      PlanStep("COMMIT_PUSH_PR", ""),
      PlanStep("CAPTURE_DIFF", ""),
      PlanStep("VERIFY_CMD", ""),
      PlanStep("DELETE_FILE", "b"),
      PlanStep("APPLY_PATCH", ""),
      PlanStep("EDIT_FILE", "a"),
      PlanStep("EDIT_FILE", "a ") }

\* (max_steps, max_file_mutations, max_unique_paths_mutated): a lax policy,
\* which only four mutation steps or the steps injected by governance
\* exceed, and a tight one on steps and on distinct paths
ScopeLimits == { <<6, 3, 3>>, <<2, 2, 1>> }

\* require_verification_for_pr is True in every policy that
\* resolve_engineering_mode builds (engineering_mode.py:63, 75, 86); it only
\* decides whether a note is appended and never changes the steps
Policies ==
    { [name |-> "MODE", max_steps |-> l[1], max_file_mutations |-> l[2],
       max_unique_paths_mutated |-> l[3], allow_delete_file |-> d,
       allow_apply_patch |-> a, require_approval_before_pr |-> r,
       require_verification_for_pr |-> TRUE] :
      l \in ScopeLimits, d \in BOOLEAN, a \in BOOLEAN, r \in BOOLEAN }

\* the notes the planner hands over, one segment (strict_planner.py:86)
PlannerNote == AuditNote("PLANNER", "planner note", FALSE, <<>>)

InitAudit ==
    /\ plan = ExecutionPlan(<<>>, <<PlannerNote>>)
    /\ policy = IdlePolicy
    /\ apc = "build"
    /\ audited = NoPlan
    /\ reaudited = NoPlan
    /\ ConfIdle
    /\ PipelineIdle
    /\ CiIdle /\ ExtIdle

\* the caller's plan grows by one step (strict_planner.py appends steps)
AddStep ==
    /\ apc = "build"
    /\ Len(plan.steps) < MaxPlanLen
    /\ \E s \in StepValues :
          plan' = ExecutionPlan(Append(plan.steps, s), plan.notes)
    /\ UNCHANGED <<policy, apc, audited, reaudited, confVars, pipelineVars, ciVars, extVars>>

\* agent_runner.py:151, plan = audit_plan(raw_plan, policy, facts), under any
\* policy; the audited plan is then audited once more under the same policy
\* (a re-entrant run audits again)
Audit ==
    /\ apc = "build"
    /\ \E pol \in Policies :
          /\ policy' = pol
          /\ audited' = audit_plan(plan, pol)
          /\ reaudited' = audit_plan(audited', pol)
    /\ apc' = "audited"
    /\ UNCHANGED <<plan, confVars, pipelineVars, ciVars, extVars>>

NextAudit == AddStep \/ Audit

SpecAudit == InitAudit /\ [][NextAudit]_vars

-----------------------------------------------------------------------------
(***************************************************************************)
(* The job pipeline: one job, the thread that runs run_agent_pipeline for  *)
(* it (agents/agent_runner.py), the starters (api.py run_job,              *)
(* dashboard_server.py job_worker) and the control plane (api.py           *)
(* job_action). The store is the get / set-status / append-event           *)
(* interface of storage/artifact_store.py. The plan executor               *)
(* (app.agents.executors) is not part of the sources: its steps are        *)
(* modelled by what the planner, the auditor and JobControl say of them.   *)
(***************************************************************************)
MaxRuns    == 1
MaxControl == 1

JobActions == { "fix_bugs", "add_feature", "generate_project", "create_pr",
                "deploy" }

\* confidences of the classified intent, below and above the thresholds of
\* engineering_mode.py:53,65
IntentConfidences == { 30, 90 }

ControlActs == { "pause", "resume", "abort", "retry", "provide_input",
                 "approve" }

Event(type, payload) == [type |-> type, payload |-> payload]

\* artifact_store.py:195-203: the UPDATE and the STATUS event that follows it
StatusEvent(st) == Event("STATUS", st)

HasEvent(type) == \E k \in 1 .. Len(events) : events[k].type = type

PipelineActive == ppc \notin { "idle", "done" }

\* artifact_store.py:165-181 (enqueue_agent_job): a QUEUED job with its
\* QUEUED event
InitPipeline ==
    /\ status = "QUEUED"
    /\ events = << Event("QUEUED", "") >>
    /\ repo_path = ""
    /\ action \in JobActions
    /\ ppc = "idle" /\ pjob = "" /\ pconf = 0 /\ psteps = <<>> /\ pidx = 0
    /\ pwrites = <<>> /\ perrors = 0 /\ poutcome = "" /\ statusAtReturn = ""
    /\ runs = 0
    /\ ctlCount = 0 /\ abortStanding = FALSE
    /\ ConfIdle /\ AuditIdle /\ CiIdle /\ ExtIdle

StartInvocation ==
    /\ ppc' = "read"
    /\ pjob' = "" /\ pconf' = 0 /\ psteps' = <<>> /\ pidx' = 0
    /\ pwrites' = <<>> /\ perrors' = 0 /\ poutcome' = ""
    /\ statusAtReturn' = ""
    /\ runs' = runs + 1
    /\ abortStanding' = FALSE

\* api.py:161-190 (run_job): job_update_status writes no STATUS event
ApiRunJob ==
    /\ ~PipelineActive
    /\ runs < MaxRuns
    /\ status \in { "QUEUED", "FAILED", "PAUSED", "BLOCKED", "PROPOSED" }
    /\ status' = "RUNNING"
    /\ events' = Append(events, Event("LOG", "Job started"))
    /\ StartInvocation
    /\ UNCHANGED <<repo_path, action, ctlCount, confVars, auditVars, ciVars, extVars>>

\* dashboard_server.py:237-249 (job_worker): fetch the QUEUED job, mark it
\* RUNNING, call the pipeline
WorkerRunJob ==
    /\ ~PipelineActive
    /\ runs < MaxRuns
    /\ status = "QUEUED"
    /\ status' = "RUNNING"
    /\ events' = Append(events, StatusEvent("RUNNING"))
    /\ StartInvocation
    /\ UNCHANGED <<repo_path, action, ctlCount, confVars, auditVars, ciVars, extVars>>

\* agent_runner.py:83: job = store.get_job(job_id)
PipeRead ==
    /\ ppc = "read"
    /\ pjob' = status
    /\ ppc' = "lifecycle"
    /\ UNCHANGED <<jobVars, pconf, psteps, pidx, pwrites, perrors, poutcome,
                   statusAtReturn, runs, ctlVars, confVars, auditVars, ciVars, extVars>>

\* agent_runner.py:88-96: the first entry marks the job RUNNING and goes on
\* to prepare the checkout, a re-entrant call reuses the recorded one
PipeLifecycle ==
    /\ ppc = "lifecycle"
    /\ IF pjob # "RUNNING"
       THEN /\ status' = "RUNNING"
            /\ events' = Append(events, StatusEvent("RUNNING"))
            /\ pwrites' = Append(pwrites, "RUNNING")
            /\ ppc' = "prepare"
       ELSE /\ ppc' = "analyze"
            /\ UNCHANGED <<status, events, pwrites>>
    /\ UNCHANGED <<repo_path, action, pjob, pconf, psteps, pidx, perrors,
                   poutcome, statusAtReturn, runs, ctlVars, confVars,
                   auditVars, ciVars, extVars>>

\* agent_runner.py:92-93: prepare_repo and set_job_repo_path
PipePrepare ==
    /\ ppc = "prepare"
    /\ repo_path' = "checkout"
    /\ ppc' = "analyze"
    /\ UNCHANGED <<status, events, action, pjob, pconf, psteps, pidx, pwrites,
                   perrors, poutcome, statusAtReturn, runs, ctlVars, confVars,
                   auditVars, ciVars, extVars>>

\* agent_runner.py:99-152: analysis and intent classification (their
\* failures are caught), engineering mode, build and audit of the plan, each
\* logged
PipePlan ==
    /\ ppc = "analyze"
    /\ \E c \in IntentConfidences :
          LET pol          == resolve_engineering_mode(c)
              raw_plan     == build_execution_plan_strict(action)
              audited_plan == audit_plan(raw_plan, pol)
          IN  /\ pconf' = c
              /\ events' = events \o
                     << Event("ARCH", ""), Event("INTENT", ""),
                        Event("ENGINEERING_MODE", pol.name),
                        Event("PLAN_RAW", ""), Event("PLAN_V2", "") >>
              /\ psteps' = audited_plan.steps
    /\ ppc' = "enforce"
    /\ UNCHANGED <<status, repo_path, action, pjob, pidx, pwrites, perrors,
                   poutcome, statusAtReturn, runs, ctlVars, confVars,
                   auditVars, ciVars, extVars>>

\* indices of the steps whose op is outside ALLOWED_OPS
InvalidOps(steps) ==
    { k \in 1 .. Len(steps) : steps[k].op \notin ALLOWED_OPS }

\* agent_runner.py:157-159: the op the loop raises on
FirstInvalidOp(steps) ==
    steps[CHOOSE k \in InvalidOps(steps) :
              \A j \in InvalidOps(steps) : k <= j].op

\* mutant: the check that looks at the first step only
PipeEnforceFirstStepOnly ==
    /\ ppc = "enforce"
    /\ IF Len(psteps) > 0 /\ psteps[1].op \notin ALLOWED_OPS
       THEN ppc' = "invalid_op" /\ pidx' = pidx
       ELSE ppc' = "exec" /\ pidx' = 1
    /\ UNCHANGED <<jobVars, pjob, pconf, psteps, pwrites, perrors, poutcome,
                   statusAtReturn, runs, ctlVars, confVars, auditVars,
                   ciVars, extVars>>

\* agent_runner.py:154-159: every step of the audited plan is checked
\* against ALLOWED_OPS before execute_plan is called
PipeEnforce ==
    /\ ppc = "enforce"
    /\ IF InvalidOps(psteps) # {}
       THEN ppc' = "invalid_op" /\ pidx' = pidx
       ELSE ppc' = "exec" /\ pidx' = 1
    /\ UNCHANGED <<jobVars, pjob, pconf, psteps, pwrites, perrors, poutcome,
                   statusAtReturn, runs, ctlVars, confVars, auditVars,
                   ciVars, extVars>>

\* executor: a SET_STATUS step sets the job's status (plan_auditor.py:117,
\* strict_planner.py:67,74,83,93,107,121)
ExecSetStatus ==
    /\ ppc = "exec" /\ pidx <= Len(psteps)
    /\ psteps[pidx].op = "SET_STATUS"
    /\ status' = psteps[pidx].arg
    /\ events' = Append(events, StatusEvent(psteps[pidx].arg))
    /\ pwrites' = Append(pwrites, psteps[pidx].arg)
    /\ pidx' = pidx + 1
    /\ UNCHANGED <<repo_path, action, ppc, pjob, pconf, psteps, perrors,
                   poutcome, statusAtReturn, runs, ctlVars, confVars,
                   auditVars, ciVars, extVars>>

\* executor: WAIT_FOR_APPROVAL blocks in JobControl.wait_for_event
\* (agent_runner.py:37-43); an iteration that finds neither an abort nor the
\* event sleeps and leaves the state as it is
ExecWaitForApproval ==
    /\ ppc = "exec" /\ pidx <= Len(psteps)
    /\ psteps[pidx].op = "WAIT_FOR_APPROVAL"
    /\ IF status = "ABORTED"
       THEN ppc' = "aborted_error" /\ pidx' = pidx
       ELSE HasEvent("APPROVED") /\ pidx' = pidx + 1 /\ ppc' = ppc
    /\ UNCHANGED <<jobVars, pjob, pconf, psteps, pwrites, perrors, poutcome,
                   statusAtReturn, runs, ctlVars, confVars, auditVars, ciVars, extVars>>

\* executor: COMMIT_PUSH_PR calls create_pr_fn (agent_runner.py:46-67) and
\* records the pull request (agent_runner.py:179-182 reads PR_CREATED)
ExecCommitPushPr ==
    /\ ppc = "exec" /\ pidx <= Len(psteps)
    /\ psteps[pidx].op = "COMMIT_PUSH_PR"
    /\ events' = Append(events, Event("PR_CREATED", ""))
    /\ pidx' = pidx + 1
    /\ UNCHANGED <<status, repo_path, action, ppc, pjob, pconf, psteps,
                   pwrites, perrors, poutcome, statusAtReturn, runs, ctlVars,
                   confVars, auditVars, ciVars, extVars>>

\* executor: every other step works on the checkout only
ExecOtherStep ==
    /\ ppc = "exec" /\ pidx <= Len(psteps)
    /\ psteps[pidx].op \notin { "SET_STATUS", "WAIT_FOR_APPROVAL",
                                "COMMIT_PUSH_PR" }
    /\ pidx' = pidx + 1
    /\ UNCHANGED <<jobVars, ppc, pjob, pconf, psteps, pwrites, perrors,
                   poutcome, statusAtReturn, runs, ctlVars, confVars,
                   auditVars, ciVars, extVars>>

\* an exception out of prepare_repo (core/repo_manager.py), the store, or a
\* step of the executor: RuntimeError or any other Exception
PipeRaise ==
    /\ ppc \in { "prepare", "exec" }
    /\ ppc' \in { "runtime_error", "other_error" }
    /\ UNCHANGED <<jobVars, pjob, pconf, psteps, pidx, pwrites, perrors,
                   poutcome, statusAtReturn, runs, ctlVars, confVars,
                   auditVars, ciVars, extVars>>

Return(how, st) ==
    /\ ppc' = "done"
    /\ poutcome' = how
    /\ statusAtReturn' = st

\* agent_runner.py:177-192: execute_plan returned; PR policy log, then
\* COMPLETED is written whatever the status is
PipeComplete ==
    /\ ppc = "exec" /\ pidx > Len(psteps)
    /\ status' = "COMPLETED"
    /\ events' = events
                 \o (IF action \in { "fix_bugs", "add_feature", "refactor",
                                      "create_pr" } /\ ~HasEvent("PR_CREATED")
                     THEN << Event("LOG", "No PR created") >> ELSE <<>>)
                 \o << StatusEvent("COMPLETED"),
                       Event("LOG", "Job completed successfully") >>
    /\ pwrites' = Append(pwrites, "COMPLETED")
    /\ Return("completed", "COMPLETED")
    /\ UNCHANGED <<repo_path, action, pjob, pconf, psteps, pidx, perrors,
                   runs, ctlVars, confVars, auditVars, ciVars, extVars>>

\* agent_runner.py:194-198
HandleAborted ==
    /\ ppc = "aborted_error"
    /\ status' = "ABORTED"
    /\ events' = events \o << StatusEvent("ABORTED"),
                              Event("LOG", "Job aborted") >>
    /\ pwrites' = Append(pwrites, "ABORTED")
    /\ Return("aborted", "ABORTED")
    /\ UNCHANGED <<repo_path, action, pjob, pconf, psteps, pidx, perrors,
                   runs, ctlVars, confVars, auditVars, ciVars, extVars>>

Fail(kind) ==
    /\ status' = "FAILED"
    /\ events' = events \o << Event("ERROR", kind), StatusEvent("FAILED") >>
    /\ pwrites' = Append(pwrites, "FAILED")
    /\ perrors' = perrors + 1
    /\ Return("failed", "FAILED")
    /\ UNCHANGED <<repo_path, action, pjob, pconf, psteps, pidx, runs,
                   ctlVars, confVars, auditVars, ciVars, extVars>>

\* agent_runner.py:200-201: a RuntimeError other than ABORTED; str(e) is
\* the ERROR payload
HandleRuntimeError ==
    /\ ppc \in { "runtime_error", "invalid_op" }
    /\ Fail(IF ppc = "invalid_op"
            THEN "INVALID_OP: " \o FirstInvalidOp(psteps)
            ELSE "RuntimeError")

\* agent_runner.py:203-205: any other Exception
HandleException == ppc = "other_error" /\ Fail("Exception")

\* api.py:204-230: the event each control action appends
RequestEvent(act) ==
    CASE act = "pause"         -> "PAUSE_REQUESTED"
      [] act = "resume"        -> "RESUME_REQUESTED"
      [] act = "abort"         -> "ABORT_REQUESTED"
      [] act = "retry"         -> "RETRY_REQUESTED"
      [] act = "provide_input" -> "USER_INPUT"
      [] act = "approve"       -> "APPROVED"

\* api.py:204-231: the status job_action writes for a request that read
\* status seen, or "" where it writes none
RequestStatus(act, seen) ==
    CASE act = "pause"  -> "PAUSED"
      [] act = "resume" -> "RUNNING"
      [] act = "abort"  -> "ABORTED"
      [] act = "retry"  -> "QUEUED"
      [] act = "provide_input" -> IF seen = "BLOCKED" THEN "RUNNING" ELSE ""
      [] act = "approve" ->
             IF seen \in { "PROPOSED", "NEEDS_REVIEW" } THEN "RUNNING" ELSE ""

\* api.py:193-237 (job_action): job_get, job_append_event, job_update_status
JobAction ==
    /\ ctlCount < MaxControl
    /\ \E act \in ControlActs :
          LET st == RequestStatus(act, status)
          IN  /\ events' = Append(events, Event(RequestEvent(act), ""))
              /\ IF st = ""
                 THEN UNCHANGED <<status, abortStanding>>
                 ELSE /\ status' = st
                      /\ abortStanding' = (act = "abort" /\ PipelineActive)
    /\ ctlCount' = ctlCount + 1
    /\ UNCHANGED <<repo_path, action, pipeVars, confVars, auditVars, ciVars, extVars>>

NextPipeline ==
    \/ ApiRunJob \/ WorkerRunJob
    \/ PipeRead \/ PipeLifecycle \/ PipePrepare \/ PipePlan \/ PipeEnforce
    \/ ExecSetStatus \/ ExecWaitForApproval \/ ExecCommitPushPr
    \/ ExecOtherStep \/ PipeRaise
    \/ PipeComplete \/ HandleAborted \/ HandleRuntimeError \/ HandleException
    \/ JobAction

SpecPipeline == InitPipeline /\ [][NextPipeline]_vars

-----------------------------------------------------------------------------
(***************************************************************************)
(* run_agent_pipeline from the ALLOWED_OPS check on (agent_runner.py:154-   *)
(* 205), for any plan handed over by audit_plan: plans of at most          *)
(* MaxEnforceLen steps over ops of the vocabulary and two ops outside it.  *)
(***************************************************************************)
MaxEnforceLen == 3

EnforceSteps ==
    { PlanStep("ANALYZE_REPO", "facts"),
      PlanStep("SET_STATUS", "PROPOSED"),
      PlanStep("WAIT_FOR_APPROVAL", ""),
      PlanStep("COMMIT_PUSH_PR", ""),
      PlanStep("EDIT_FILE", "a"),
      PlanStep("RUN_SHELL", ""),
      PlanStep("DROP_DB", "") }

EnforcePlans ==
    UNION { [1 .. n -> EnforceSteps] : n \in 0 .. MaxEnforceLen }

InitEnforce ==
    /\ status = "RUNNING"
    /\ events = << Event("QUEUED", ""), Event("PLAN_V2", "") >>
    /\ repo_path = "checkout"
    /\ action = "create_pr"
    /\ ppc = "enforce" /\ pjob = "RUNNING" /\ pconf = 0
    /\ psteps \in EnforcePlans
    /\ pidx = 0 /\ pwrites = <<>> /\ perrors = 0 /\ poutcome = ""
    /\ statusAtReturn = ""
    /\ runs = 1
    /\ ctlCount = 0 /\ abortStanding = FALSE
    /\ ConfIdle /\ AuditIdle /\ CiIdle /\ ExtIdle

NextEnforce ==
    \/ PipeEnforce
    \/ ExecSetStatus \/ ExecWaitForApproval \/ ExecCommitPushPr
    \/ ExecOtherStep \/ PipeRaise
    \/ PipeComplete \/ HandleAborted \/ HandleRuntimeError \/ HandleException
    \/ JobAction

SpecEnforce == InitEnforce /\ [][NextEnforce]_vars

-----------------------------------------------------------------------------
(***************************************************************************)
(* ci/retry_engine.py: classification of CI evidence and the retry policy  *)
(***************************************************************************)
MaxExcerptLen == 2
MaxAttempts   == 4

\* words of a log excerpt; the excerpt is their sequence, joined by blanks
Tokens == { "Timeout", "infrastructure", "Cache", "failed", "flake8", "FLAKY",
            "AssertionError" }

\* str.lower() on the words of the model
Lower(t) ==
    CASE t = "Timeout"        -> "timeout"
      [] t = "Cache"          -> "cache"
      [] t = "FLAKY"          -> "flaky"
      [] t = "AssertionError" -> "assertionerror"
      [] OTHER                -> t

\* w in t, for a vocabulary word w and one word t of the message
WordIn(w, t) ==
    \/ w = t
    \/ <<w, t>> \in { <<"infra", "infrastructure">>, <<"flake", "flake8">> }

\* w in msg (retry_engine.py:41,43), msg a sequence of words; "cache fail"
\* matches across the blank between two adjacent words
InMsg(w, msg) ==
    IF w = "cache fail"
    THEN \E k \in 1 .. Len(msg) - 1 : msg[k] = "cache" /\ msg[k + 1] = "failed"
    ELSE \E k \in 1 .. Len(msg) : WordIn(w, msg[k])

CIOutcome(cat, ev) ==
    [category |-> cat, failing_files |-> ev.n_files,
     failing_tests |-> ev.n_tests]

\* mutant: the classification that looks at the flaky vocabulary first
classify_flaky_first(ev) ==
    LET msg == [k \in 1 .. Len(ev.excerpt) |-> Lower(ev.excerpt[k])]
    IN  IF \E w \in { "flake", "flaky", "random" } : InMsg(w, msg)
        THEN CIOutcome("flaky", ev)
        ELSE IF \E w \in { "timeout", "network", "infra", "runner", "cache fail" } :
               InMsg(w, msg)
        THEN CIOutcome("infra", ev)
        ELSE IF ev.n_files = 0 /\ ev.n_tests > 0
        THEN CIOutcome("unit_fail", ev)
        ELSE IF ev.n_files > 0
        THEN CIOutcome("legit", ev)
        ELSE CIOutcome("unknown", ev)

\* retry_engine.py:28-57
classify_ci_outcome(ev) ==
    LET msg == [k \in 1 .. Len(ev.excerpt) |-> Lower(ev.excerpt[k])]
    IN  IF \E w \in { "timeout", "network", "infra", "runner", "cache fail" } :
               InMsg(w, msg)
        THEN CIOutcome("infra", ev)
        ELSE IF \E w \in { "flake", "flaky", "random" } : InMsg(w, msg)
        THEN CIOutcome("flaky", ev)
        ELSE IF ev.n_files = 0 /\ ev.n_tests > 0
        THEN CIOutcome("unit_fail", ev)
        ELSE IF ev.n_files > 0
        THEN CIOutcome("legit", ev)
        ELSE CIOutcome("unknown", ev)

\* retry_engine.py:64-68
RetryDecision(should_retry, reason, backoff_seconds) ==
    [should_retry |-> should_retry, reason |-> reason,
     backoff_seconds |-> backoff_seconds]

should_retry_limit_inclusive(oc, previous_attempts) ==
    IF oc = NoOutcome THEN RetryDecision(FALSE, "No CI evidence", 300)
    ELSE IF oc.category \in { "infra", "flaky" }
    THEN IF previous_attempts <= 3
         THEN RetryDecision(TRUE, "Retry allowed", 300)
         ELSE RetryDecision(FALSE, "Retry limit reached", 300)
    ELSE IF oc.category = "legit"
    THEN RetryDecision(FALSE, "Failure appears real", 300)
    ELSE IF previous_attempts = 0
    THEN RetryDecision(TRUE, "Uncertain", 300)
    ELSE RetryDecision(FALSE, "Unknown + retries already done", 300)

\* retry_engine.py:71-97
should_retry_from_ci(oc, previous_attempts) ==
    IF oc = NoOutcome THEN RetryDecision(FALSE, "No CI evidence", 300)
    ELSE IF oc.category \in { "infra", "flaky" }
    THEN IF previous_attempts < 3
         THEN RetryDecision(TRUE, "Retry allowed", 300)
         ELSE RetryDecision(FALSE, "Retry limit reached", 300)
    ELSE IF oc.category = "legit"
    THEN RetryDecision(FALSE, "Failure appears real", 300)
    ELSE IF previous_attempts = 0
    THEN RetryDecision(TRUE, "Uncertain", 300)
    ELSE RetryDecision(FALSE, "Unknown + retries already done", 300)

Excerpts == UNION { [1 .. n -> Tokens] : n \in 0 .. MaxExcerptLen }

EvidenceValues ==
    [excerpt : Excerpts, n_files : 0 .. 1, n_tests : 0 .. 1]

InitRetry ==
    /\ evidence \in EvidenceValues
    /\ attempts_in \in -1 .. MaxAttempts
    /\ outcome = NoOutcome
    /\ decision = NoDecision
    /\ rpc = "start"
    /\ ConfIdle /\ AuditIdle /\ PipelineIdle /\ WatcherIdle /\ ExtIdle

\* ci_watcher.py:232-233: ci_outcome = classify_ci_outcome(ci_evidence)
Classify ==
    /\ rpc = "start"
    /\ outcome' = classify_ci_outcome(evidence)
    /\ rpc' = "classified"
    /\ UNCHANGED <<evidence, attempts_in, decision, watchVars, confVars,
                   auditVars, pipelineVars, extVars>>

\* should_retry_from_ci(outcome, previous_attempts), with the classified
\* outcome or with none
Decide ==
    /\ rpc \in { "start", "classified" }
    /\ decision' = should_retry_from_ci(outcome, attempts_in)
    /\ rpc' = "decided"
    /\ UNCHANGED <<evidence, attempts_in, outcome, watchVars, confVars,
                   auditVars, pipelineVars, extVars>>

NextRetry == Classify \/ Decide

SpecRetry == InitRetry /\ [][NextRetry]_vars

-----------------------------------------------------------------------------
(***************************************************************************)
(* ci/ci_watcher.py: run_ci_watcher, followed for one open pull request.   *)
(* One action per exit of the loop body. The persisted retry state         *)
(* {attempts, last_outcome, active} is the store interface the watcher     *)
(* probes with hasattr; fetching logs, generating the fix, pushing and     *)
(* commenting are calls that succeed or fail.                              *)
(***************************************************************************)
MaxCycles == 4

\* config.py:29-34
CiModes == 0 .. 3

\* evidence with a failure: an infra excerpt, a flaky one, one with neither
WatcherEvidence ==
    [excerpt : { <<"Timeout">>, <<"FLAKY">>, <<"AssertionError">> },
     n_files : 0 .. 1, n_tests : 0 .. 1]

\* what the watcher learns of the target file and of the generated fix
PatchValues ==
    { p \in [is_py : BOOLEAN, ast_ok : BOOLEAN, safe : BOOLEAN,
             used_llm : BOOLEAN, used_rule_based : BOOLEAN,
             file_lines : { 900 }] :
        /\ ~p.is_py => (p.ast_ok /\ p.safe)
        /\ p.used_llm # p.used_rule_based }

\* ci_watcher.py:156-164: previous_attempts
PreviousAttempts(get_ok) ==
    IF has_retry_api /\ get_ok /\ retry_state.stored
    THEN retry_state.attempts ELSE 0

\* ci_watcher.py:216-227 and the like: store_retry_status under hasattr and
\* try/except, the state it leaves
StoreRetryStatus(attempts, last_outcome, active, store_ok) ==
    IF has_retry_api /\ store_ok
    THEN [attempts |-> attempts, last_outcome |-> last_outcome,
          active |-> active, stored |-> TRUE]
    ELSE retry_state

\* ci_watcher.py:85-111: _compute_confidence_for_ci_retry
ConfidenceForCiRetry(p) ==
    compute_confidence(
        [used_stack_trace |-> TRUE, stack_trace_function_resolved |-> FALSE,
         changed_files_count |-> 1, impacted_files_count |-> 0,
         ast_verified |-> p.ast_ok, safety_verified |-> p.safe,
         used_llm |-> p.used_llm, used_rule_based |-> p.used_rule_based,
         file_lines |-> p.file_lines])

\* ci_watcher.py:350: the safety and confidence gate
GateBlocks(p) == ~p.safe \/ ConfidenceForCiRetry(p) < 25

\* ci_watcher.py:388-393: the helper called with repo_path, branch,
\* file_path and new_content pushes the amended commit and returns, or
\* raises before anything is pushed
commit_and_push_amend == { "pushed", "raised" }

\* ci_watcher.py:124,167: the cycle goes on to fetch the logs
CycleProceeds(prev) == ci_mode > 0 /\ ~(ci_mode = 2 /\ prev >= 1)

\* ci_watcher.py:231-244: the policy allows a retry
RetryAllowed(ev, prev) ==
    should_retry_from_ci(classify_ci_outcome(ev), prev).should_retry

EndCycle(path, prev) ==
    /\ cycles' = cycles + 1
    /\ last_read' = prev
    /\ commits_at_read' = commits
    /\ wpath' = path

Classified(ev) ==
    only_retryable' =
        (only_retryable /\
         classify_ci_outcome(ev).category \in { "infra", "flaky" })

\* the retry state an earlier watcher process (under any CI_MODE) left for
\* the pull request: none, or one or two attempts after as many commits
PriorRetryStates ==
    { NoRetryState }
    \cup { [attempts |-> n, last_outcome |-> "infra", active |-> TRUE,
            stored |-> TRUE] : n \in 1 .. 2 }

InitWatcher ==
    /\ ci_mode \in CiModes
    /\ has_retry_api \in BOOLEAN
    /\ retry_state \in (IF has_retry_api THEN PriorRetryStates
                        ELSE { NoRetryState })
    /\ commits = retry_state.attempts
    /\ cycles = 0 /\ last_read = 0 /\ commits_at_read = 0
    /\ only_retryable = TRUE /\ wpath = "start"
    /\ ConfIdle /\ AuditIdle /\ PipelineIdle /\ RetryIdle /\ ExtIdle

\* ci_watcher.py:124-126
WatcherDisabled ==
    /\ cycles < MaxCycles
    /\ ci_mode <= 0
    /\ cycles' = cycles + 1
    /\ wpath' = "disabled"
    /\ UNCHANGED <<ci_mode, has_retry_api, retry_state, commits, last_read,
                   commits_at_read, only_retryable, retryVars, confVars,
                   auditVars, pipelineVars, extVars>>

\* ci_watcher.py:166-169
WatcherModeCap ==
    /\ cycles < MaxCycles
    /\ \E get_ok \in BOOLEAN :
          LET prev == PreviousAttempts(get_ok)
          IN  /\ ci_mode = 2 /\ prev >= 1
              /\ EndCycle("mode_cap", prev)
    /\ UNCHANGED <<ci_mode, has_retry_api, retry_state, commits,
                   only_retryable, retryVars, confVars, auditVars,
                   pipelineVars, extVars>>

\* ci_watcher.py:179-187: no failed logs, or logs without a failure
WatcherNoFailure ==
    /\ cycles < MaxCycles
    /\ \E get_ok \in BOOLEAN :
          LET prev == PreviousAttempts(get_ok)
          IN  /\ CycleProceeds(prev)
              /\ EndCycle("no_failure", prev)
    /\ UNCHANGED <<ci_mode, has_retry_api, retry_state, commits,
                   only_retryable, retryVars, confVars, auditVars,
                   pipelineVars, extVars>>

\* ci_watcher.py:214-229
WatcherObserveOnly ==
    /\ cycles < MaxCycles
    /\ \E get_ok \in BOOLEAN, store_ok \in BOOLEAN :
          LET prev == PreviousAttempts(get_ok)
          IN  /\ CycleProceeds(prev)
              /\ ci_mode = 1
              /\ retry_state' =
                     StoreRetryStatus(prev, "OBSERVE_ONLY", FALSE, store_ok)
              /\ EndCycle("observe_only", prev)
    /\ UNCHANGED <<ci_mode, has_retry_api, commits, only_retryable,
                   retryVars, confVars, auditVars, pipelineVars, extVars>>

\* ci_watcher.py:231-258
WatcherNoRetry ==
    /\ cycles < MaxCycles
    /\ \E get_ok \in BOOLEAN, store_ok \in BOOLEAN, ev \in WatcherEvidence :
          LET prev == PreviousAttempts(get_ok)
          IN  /\ CycleProceeds(prev)
              /\ ci_mode # 1
              /\ ~RetryAllowed(ev, prev)
              /\ retry_state' =
                     StoreRetryStatus(prev, classify_ci_outcome(ev).category,
                                      FALSE, store_ok)
              /\ Classified(ev)
              /\ EndCycle("no_retry", prev)
    /\ UNCHANGED <<ci_mode, has_retry_api, commits, retryVars, confVars,
                   auditVars, pipelineVars, extVars>>

\* ci_watcher.py:267-280: no failing file named, or the file is missing,
\* unreadable or empty
WatcherNoTarget ==
    /\ cycles < MaxCycles
    /\ \E get_ok \in BOOLEAN, ev \in WatcherEvidence, file_ok \in BOOLEAN :
          LET prev == PreviousAttempts(get_ok)
          IN  /\ CycleProceeds(prev)
              /\ ci_mode # 1
              /\ RetryAllowed(ev, prev)
              /\ ev.n_files = 0 \/ ~file_ok
              /\ Classified(ev)
              /\ EndCycle("no_target", prev)
    /\ UNCHANGED <<ci_mode, has_retry_api, retry_state, commits, retryVars,
                   confVars, auditVars, pipelineVars, extVars>>

\* the cycle reaches the fix generator with a readable target
ReachesFix(ev, prev) ==
    /\ CycleProceeds(prev)
    /\ ci_mode # 1
    /\ RetryAllowed(ev, prev)
    /\ ev.n_files > 0

\* ci_watcher.py:297-318: generate_fixed_content produced nothing
WatcherNoFix ==
    /\ cycles < MaxCycles
    /\ \E get_ok \in BOOLEAN, store_ok \in BOOLEAN, ev \in WatcherEvidence :
          LET prev == PreviousAttempts(get_ok)
          IN  /\ ReachesFix(ev, prev)
              /\ retry_state' =
                     StoreRetryStatus(prev, classify_ci_outcome(ev).category,
                                      FALSE, store_ok)
              /\ Classified(ev)
              /\ EndCycle("no_fix", prev)
    /\ UNCHANGED <<ci_mode, has_retry_api, commits, retryVars, confVars,
                   auditVars, pipelineVars, extVars>>

\* ci_watcher.py:349-365
WatcherBlocked ==
    /\ cycles < MaxCycles
    /\ \E get_ok \in BOOLEAN, ev \in WatcherEvidence :
          LET prev == PreviousAttempts(get_ok)
          IN  /\ ReachesFix(ev, prev)
              /\ \E p \in PatchValues : GateBlocks(p)
              /\ \E store_ok \in BOOLEAN : retry_state' =
                     StoreRetryStatus(prev, classify_ci_outcome(ev).category,
                                      FALSE, store_ok)
              /\ Classified(ev)
              /\ EndCycle("blocked", prev)
    /\ UNCHANGED <<ci_mode, has_retry_api, commits, retryVars, confVars,
                   auditVars, pipelineVars, extVars>>

\* ci_watcher.py:367-382
WatcherSensitive ==
    /\ cycles < MaxCycles
    /\ \E get_ok \in BOOLEAN, ev \in WatcherEvidence :
          LET prev == PreviousAttempts(get_ok)
          IN  /\ ReachesFix(ev, prev)
              /\ \E p \in PatchValues : ~GateBlocks(p)
              /\ \E store_ok \in BOOLEAN : retry_state' =
                     StoreRetryStatus(prev, classify_ci_outcome(ev).category,
                                      FALSE, store_ok)
              /\ Classified(ev)
              /\ EndCycle("sensitive", prev)
    /\ UNCHANGED <<ci_mode, has_retry_api, commits, retryVars, confVars,
                   auditVars, pipelineVars, extVars>>

\* ci_watcher.py:386-416: commit_and_push_amend raised and nothing was
\* pushed, or the push went through and post_ci_retry_status raised
WatcherCommitFailed ==
    /\ cycles < MaxCycles
    /\ \E get_ok \in BOOLEAN, ev \in WatcherEvidence :
          LET prev == PreviousAttempts(get_ok)
          IN  /\ ReachesFix(ev, prev)
              /\ \E p \in PatchValues : ~GateBlocks(p)
              /\ \E push \in commit_and_push_amend :
                     commits' = IF push = "pushed" THEN commits + 1
                                ELSE commits
              /\ \E store_ok \in BOOLEAN : retry_state' =
                     StoreRetryStatus(prev, "COMMIT_FAILED", FALSE, store_ok)
              /\ Classified(ev)
              /\ EndCycle("commit_failed", prev)
    /\ UNCHANGED <<ci_mode, has_retry_api, retryVars, confVars, auditVars,
                   pipelineVars, extVars>>

\* ci_watcher.py:386-436: pushed and commented; the new attempt count is
\* stored, a failure of that store call being non-fatal
WatcherCommitted ==
    /\ cycles < MaxCycles
    /\ \E get_ok \in BOOLEAN, ev \in WatcherEvidence :
          LET prev == PreviousAttempts(get_ok)
          IN  /\ ReachesFix(ev, prev)
              /\ \E p \in PatchValues : ~GateBlocks(p)
              /\ commits' = commits + 1
              /\ \E store_ok \in BOOLEAN : retry_state' =
                     StoreRetryStatus(prev + 1,
                                      classify_ci_outcome(ev).category,
                                      TRUE, store_ok)
              /\ Classified(ev)
              /\ EndCycle("committed", prev)
    /\ UNCHANGED <<ci_mode, has_retry_api, retryVars, confVars, auditVars,
                   pipelineVars, extVars>>

NextWatcher ==
    \/ WatcherDisabled \/ WatcherModeCap \/ WatcherNoFailure
    \/ WatcherObserveOnly \/ WatcherNoRetry \/ WatcherNoTarget
    \/ WatcherNoFix \/ WatcherBlocked \/ WatcherSensitive
    \/ WatcherCommitFailed \/ WatcherCommitted

SpecWatcher == InitWatcher /\ [][NextWatcher]_vars

-----------------------------------------------------------------------------
(***************************************************************************)
(* app/main.py run: the body of the loop over the fetched issues, for one  *)
(* issue.  One action per way the body ends.  The retry state is kept as   *)
(* [attempts, none, active, stored]: none is TRUE when attempts=None was   *)
(* stored.                                                                 *)
(***************************************************************************)
MaxIssueRuns == 3

\* main.py:68
AUTO_DRAFT_CONF == 15

\* what a pass learns of the issue, the target file and the generated fix:
\* trace (parse_stack_trace found one), entry_fn (main.py:612), ci_files
\* (len(ci_ranked_files)), impacted (dependency_impact, 0 without entry_fn),
\* safe (verify_safe_change, main.py:700-709), sensitive
\* (touches_sensitive_area)
FixInputs ==
    { f \in [trace : BOOLEAN, entry_fn : BOOLEAN, ci_files : 0 .. 2,
             impacted : { 0, 1, 4 }, is_py : BOOLEAN, ast_ok : BOOLEAN,
             safe : BOOLEAN, used_llm : BOOLEAN, used_rule_based : BOOLEAN,
             file_lines : { 100, 500, 900 }, sensitive : BOOLEAN] :
        /\ f.entry_fn => (f.trace /\ f.is_py)
        /\ f.impacted > 0 => f.entry_fn
        /\ ~f.is_py => (f.ast_ok /\ f.safe)
        /\ f.used_llm # f.used_rule_based }

\* proposal_engine.py:20-61
should_enter_proposal_mode(confidence, changed_files_count, impacted_files_count, used_llm, touches_sensitive_area) ==
    IF changed_files_count > 1 THEN "PROPOSE"
    ELSE IF impacted_files_count > 3 THEN "PROPOSE"
    ELSE IF touches_sensitive_area /\ confidence < 100 THEN "PROPOSE"
    ELSE IF used_llm /\ confidence < 100 THEN "PROPOSE"
    ELSE IF confidence >= 100 THEN "APPLY"
    ELSE "PROPOSE"

\* main.py:721-731
changed_files_count_for_gate(f) ==
    IF f.ci_files >= 2 \/ f.impacted > 0 THEN 2 ELSE 1

\* main.py:737-747
IssueInputs(f) ==
    [used_stack_trace |-> f.trace \/ f.ci_files > 0,
     stack_trace_function_resolved |-> f.entry_fn,
     changed_files_count |-> changed_files_count_for_gate(f),
     impacted_files_count |-> f.impacted,
     ast_verified |-> f.ast_ok, safety_verified |-> f.safe,
     used_llm |-> f.used_llm, used_rule_based |-> f.used_rule_based,
     file_lines |-> f.file_lines]

\* main.py:736-748
IssueConfidence(f) == compute_confidence(IssueInputs(f))

\* main.py:750-760
IssueMode(f) ==
    should_enter_proposal_mode(IssueConfidence(f),
                               changed_files_count_for_gate(f), f.impacted,
                               f.used_llm, f.sensitive)

\* main.py:798-799
pr_full_allowed(f)  == IssueConfidence(f) >= 55
pr_draft_allowed(f) == IssueConfidence(f) >= AUTO_DRAFT_CONF

\* main.py:507-514: previous_attempts
IssuePreviousAttempts(get_ok) ==
    IF istore_api /\ get_ok /\ iretry.stored /\ ~iretry.none
    THEN iretry.attempts ELSE 0

\* main.py:822-834 and the like: store_retry_status under hasattr and
\* try/except applied to the row, the row it leaves
IssueStore(row, attempts, none, active, store_ok) ==
    IF istore_api /\ store_ok
    THEN [attempts |-> attempts, none |-> none, active |-> active,
          stored |-> TRUE]
    ELSE row

\* git_ops.py:13-48: every git command runs with check=True
create_branch_and_commit == { "pushed", "commit_raised", "push_raised" }

\* github_client create_pr: returns the pull request or raises
create_pr == { "opened", "raised" }

\* what a pass leaves of the generated change; mode is decision.mode
\* (main.py:750) and strict says whether the inputs of the confidence
\* computation pass all eight gates of confidence.py:86-95
Change(f, proposal) ==
    [generated |-> TRUE, safe |-> f.safe, committed |-> FALSE,
     pushed |-> FALSE, pr |-> "none", proposal |-> proposal,
     raised |-> FALSE, mode |-> IssueMode(f),
     strict |-> Perfect(IssueInputs(f))]

EndPass(path, prev, change) ==
    /\ ipath' = path
    /\ iprev' = prev
    /\ ibefore' = iretry
    /\ ichange' = change
    /\ iruns' = iruns + 1

issueRest == <<modeVars, startVars, eventVars, lateVars>>
IssueRestIdle == ModeIdle /\ StartIdle /\ EventIdle /\ LateIdle
modeRest == <<issueVars, startVars, eventVars, lateVars>>
ModeRestIdle == IssueIdle /\ StartIdle /\ EventIdle /\ LateIdle
startRest == <<issueVars, modeVars, eventVars, lateVars>>
StartRestIdle == IssueIdle /\ ModeIdle /\ EventIdle /\ LateIdle
eventRest == <<issueVars, modeVars, startVars, lateVars>>
EventRestIdle == IssueIdle /\ ModeIdle /\ StartIdle /\ LateIdle
earlyVars == <<confVars, auditVars, pipelineVars, ciVars, issueVars, modeVars,
               startVars, eventVars>>
EarlyIdle ==
    /\ ConfIdle /\ AuditIdle /\ PipelineIdle /\ CiIdle
    /\ IssueIdle /\ ModeIdle /\ StartIdle /\ EventIdle
safetyRest == <<earlyVars, diagVars, waitVars, lastVars>>
SafetyRestIdle == EarlyIdle /\ DiagIdle /\ WaitIdle /\ LastIdle
diagRest == <<earlyVars, safetyVars, waitVars, lastVars>>
DiagRestIdle == EarlyIdle /\ SafetyIdle /\ WaitIdle /\ LastIdle
waitRest == <<earlyVars, safetyVars, diagVars, lastVars>>
WaitRestIdle == EarlyIdle /\ SafetyIdle /\ DiagIdle /\ LastIdle
gateRest == <<earlyVars, midVars, plannerVars, blockVars, trailVars>>
GateRestIdle == EarlyIdle /\ MidIdle /\ PlannerIdle /\ BlockIdle /\ TrailIdle
plannerRest == <<earlyVars, midVars, gateVars, blockVars, trailVars>>
PlannerRestIdle == EarlyIdle /\ MidIdle /\ GateIdle /\ BlockIdle /\ TrailIdle
blockRest == <<earlyVars, midVars, gateVars, plannerVars, trailVars>>
BlockRestIdle == EarlyIdle /\ MidIdle /\ GateIdle /\ PlannerIdle /\ TrailIdle
trailRest == <<earlyVars, midVars, gateVars, plannerVars, blockVars>>
TrailRestIdle == EarlyIdle /\ MidIdle /\ GateIdle /\ PlannerIdle /\ BlockIdle

InitIssue ==
    /\ istore_api \in BOOLEAN
    /\ iretry = NoRetryRow /\ ibefore = NoRetryRow
    /\ iprev = 0 /\ ichange = NoChange /\ ipath = "start" /\ iruns = 0
    /\ ConfIdle /\ AuditIdle /\ PipelineIdle /\ CiIdle /\ IssueRestIdle

\* main.py:426-440: a pull request is already open for the issue
IssueSkipPrExists ==
    /\ iruns < MaxIssueRuns
    /\ EndPass("skip_pr_exists", 0, NoChange)
    /\ UNCHANGED <<istore_api, iretry, confVars, auditVars, pipelineVars,
                   ciVars, issueRest>>

\* main.py:547-583: no file resolved
IssueNoFile ==
    /\ iruns < MaxIssueRuns
    /\ \E get_ok \in BOOLEAN, store_ok \in BOOLEAN :
          LET prev == IssuePreviousAttempts(get_ok)
          IN  /\ iretry' = IssueStore(iretry, prev, FALSE, FALSE, store_ok)
              /\ EndPass("no_file", prev, NoChange)
    /\ UNCHANGED <<istore_api, confVars, auditVars, pipelineVars, ciVars,
                   issueRest>>

\* main.py:586-599: the target file is empty or unreadable
IssueSkipEmpty ==
    /\ iruns < MaxIssueRuns
    /\ \E get_ok \in BOOLEAN :
          EndPass("skip_empty_file", IssuePreviousAttempts(get_ok), NoChange)
    /\ UNCHANGED <<istore_api, iretry, confVars, auditVars, pipelineVars,
                   ciVars, issueRest>>

\* main.py:626-690: generate_fixed_content produced nothing
IssueNoFix ==
    /\ iruns < MaxIssueRuns
    /\ \E get_ok \in BOOLEAN, store_ok \in BOOLEAN :
          LET prev == IssuePreviousAttempts(get_ok)
          IN  /\ iretry' = IssueStore(iretry, prev, FALSE, FALSE, store_ok)
              /\ EndPass("no_fix", prev,
                         [NoChange EXCEPT !.proposal = TRUE])
    /\ UNCHANGED <<istore_api, confVars, auditVars, pipelineVars, ciVars,
                   issueRest>>

\* main.py:801-820: full pull request allowed, run_tests failed
IssueTestsFailed ==
    /\ iruns < MaxIssueRuns
    /\ \E f \in FixInputs :
          /\ IssueMode(f) # "APPLY"
          /\ pr_full_allowed(f)
          /\ \E get_ok \in BOOLEAN :
                EndPass("tests_failed", IssuePreviousAttempts(get_ok),
                        Change(f, TRUE))
    /\ UNCHANGED <<istore_api, iretry, confVars, auditVars, pipelineVars,
                   ciVars, issueRest>>

\* main.py:801-856 with continue_full_PR_flow (main.py:120-190): run_tests
\* passed; the retry state is stored, then the branch is committed and
\* pushed, the retry state stored again and the pull request opened.  An
\* exception of create_branch_and_commit or create_pr leaves run()
IssueFullPr ==
    /\ iruns < MaxIssueRuns
    /\ \E f \in FixInputs :
          /\ IssueMode(f) # "APPLY"
          /\ pr_full_allowed(f)
          /\ \E get_ok \in BOOLEAN, store_ok \in BOOLEAN,
                git \in create_branch_and_commit, pr \in create_pr :
                LET prev   == IssuePreviousAttempts(get_ok)
                    first  == IssueStore(iretry, prev + 1, FALSE, TRUE,
                                         store_ok)
                IN  IF git # "pushed"
                    THEN /\ pr = "raised"
                         /\ iretry' = first
                         /\ EndPass("full_pr_raised", prev,
                               [Change(f, FALSE) EXCEPT
                                   !.committed = (git = "push_raised"),
                                   !.raised = TRUE])
                    ELSE /\ iretry' = IssueStore(first, prev + 1, FALSE,
                                                 TRUE, store_ok)
                         /\ EndPass("full_pr", prev,
                               [Change(f, FALSE) EXCEPT
                                   !.committed = TRUE, !.pushed = TRUE,
                                   !.pr = IF pr = "opened" THEN "full"
                                          ELSE "none",
                                   !.raised = (pr = "raised")])
    /\ UNCHANGED <<istore_api, confVars, auditVars, pipelineVars, ciVars,
                   issueRest>>

\* main.py:858-897: draft pull request
IssueDraftPr ==
    /\ iruns < MaxIssueRuns
    /\ \E f \in FixInputs :
          /\ IssueMode(f) # "APPLY"
          /\ ~pr_full_allowed(f)
          /\ pr_draft_allowed(f)
          /\ \E get_ok \in BOOLEAN, store_ok \in BOOLEAN,
                git \in create_branch_and_commit, pr \in create_pr :
                LET prev == IssuePreviousAttempts(get_ok)
                IN  IF git # "pushed"
                    THEN /\ pr = "raised" /\ store_ok
                         /\ iretry' = iretry
                         /\ EndPass("draft_pr_raised", prev,
                               [Change(f, FALSE) EXCEPT
                                   !.committed = (git = "push_raised"),
                                   !.raised = TRUE])
                    ELSE /\ iretry' = IssueStore(iretry, prev + 1, FALSE,
                                                 TRUE, store_ok)
                         /\ EndPass("draft_pr", prev,
                               [Change(f, FALSE) EXCEPT
                                   !.committed = TRUE, !.pushed = TRUE,
                                   !.pr = IF pr = "opened" THEN "draft"
                                          ELSE "none",
                                   !.raised = (pr = "raised")])
    /\ UNCHANGED <<istore_api, confVars, auditVars, pipelineVars, ciVars,
                   issueRest>>

\* main.py:899-912: very low confidence, the proposal is stored
IssueProposalOnly ==
    /\ iruns < MaxIssueRuns
    /\ \E f \in FixInputs :
          /\ IssueMode(f) # "APPLY"
          /\ ~pr_full_allowed(f)
          /\ ~pr_draft_allowed(f)
          /\ \E get_ok \in BOOLEAN :
                EndPass("proposal_only", IssuePreviousAttempts(get_ok),
                        Change(f, TRUE))
    /\ UNCHANGED <<istore_api, iretry, confVars, auditVars, pipelineVars,
                   ciVars, issueRest>>

\* main.py:921-986 with downgrade_to_proposal (main.py:82-117): the gate
\* said APPLY; the final safety stop stores the proposal and
\* attempts=previous_attempts, failed tests store the proposal and
\* attempts=None
IssueApplyDowngrade ==
    /\ iruns < MaxIssueRuns
    /\ \E f \in FixInputs :
          /\ IssueMode(f) = "APPLY"
          /\ \E get_ok \in BOOLEAN, store_ok \in BOOLEAN :
                LET prev == IssuePreviousAttempts(get_ok)
                IN  /\ iretry' =
                          IF ~f.safe
                          THEN IssueStore(iretry, prev, FALSE, FALSE,
                                          store_ok)
                          ELSE IssueStore(iretry, 0, TRUE, FALSE, store_ok)
                    /\ EndPass(IF ~f.safe THEN "safety_stop"
                               ELSE "apply_tests_failed",
                               prev, Change(f, TRUE))
    /\ UNCHANGED <<istore_api, confVars, auditVars, pipelineVars, ciVars,
                   issueRest>>

\* main.py:988-1141: tests passed; the multi-file attempt needs impacted
\* files, the single-file fallback commits, pushes, stores the retry state
\* and opens the pull request
IssueApplyPr ==
    /\ iruns < MaxIssueRuns
    /\ \E f \in FixInputs :
          /\ IssueMode(f) = "APPLY"
          /\ f.safe
          /\ \E get_ok \in BOOLEAN, store_ok \in BOOLEAN,
                git \in create_branch_and_commit, pr \in create_pr :
                LET prev == IssuePreviousAttempts(get_ok)
                IN  IF git # "pushed"
                    THEN /\ pr = "raised" /\ store_ok
                         /\ iretry' = iretry
                         /\ EndPass("apply_raised", prev,
                               [Change(f, FALSE) EXCEPT
                                   !.committed = (git = "push_raised"),
                                   !.raised = TRUE])
                    ELSE /\ iretry' = IssueStore(iretry, prev + 1, FALSE,
                                                 TRUE, store_ok)
                         /\ EndPass("apply_pr", prev,
                               [Change(f, FALSE) EXCEPT
                                   !.committed = TRUE, !.pushed = TRUE,
                                   !.pr = IF pr = "opened" THEN "full"
                                          ELSE "none",
                                   !.raised = (pr = "raised")])
    /\ UNCHANGED <<istore_api, confVars, auditVars, pipelineVars, ciVars,
                   issueRest>>

NextIssue ==
    \/ IssueSkipPrExists \/ IssueNoFile \/ IssueSkipEmpty \/ IssueNoFix
    \/ IssueTestsFailed \/ IssueFullPr \/ IssueDraftPr
    \/ IssueProposalOnly \/ IssueApplyDowngrade \/ IssueApplyPr

SpecIssue == InitIssue /\ [][NextIssue]_vars

-----------------------------------------------------------------------------
(***************************************************************************)
(* app/agents/engineering_mode.py, resolved for two intent objects         *)
(***************************************************************************)
\* values json.loads or a caller can put under "confidence": the key absent,
\* None, a non-numeric string, NaN, or a number (given in hundredths)
ConfidenceNumbers == { -1, 0, 54, 55, 79, 80, 100, 2147483647 }

IntentValue(kind, conf, v) == [kind |-> kind, conf |-> conf, v |-> v]

IntentObjects ==
    { IntentValue("missing", "absent", 0),
      IntentValue("not_dict", "absent", 0),
      IntentValue("dict", "absent", 0),
      IntentValue("dict", "none", 0),
      IntentValue("dict", "string", 0),
      IntentValue("dict", "nan", 0) }
    \cup { IntentValue("dict", "number", n) : n \in ConfidenceNumbers }

InitMode ==
    /\ intent_a \in IntentObjects
    /\ intent_b \in IntentObjects
    /\ policy_a = IdlePolicy /\ policy_b = IdlePolicy
    /\ mpc = "start"
    /\ ConfIdle /\ AuditIdle /\ PipelineIdle /\ CiIdle /\ ModeRestIdle

\* resolve_engineering_mode returns for both intents
ResolveModes ==
    /\ mpc = "start"
    /\ policy_a' = resolve_engineering_mode_intent(intent_a)
    /\ policy_b' = resolve_engineering_mode_intent(intent_b)
    /\ mpc' = "resolved"
    /\ UNCHANGED <<intent_a, intent_b, confVars, auditVars, pipelineVars,
                   ciVars, modeRest>>

NextMode == ResolveModes

SpecMode == InitMode /\ [][NextMode]_vars

-----------------------------------------------------------------------------
(***************************************************************************)
(* The starters of run_agent_pipeline for one job: the run request of      *)
(* api.py (run_job starts a thread per accepted request) and the polling   *)
(* worker of dashboard_server.py (job_worker), over the shared agent_jobs  *)
(* row.  Each thread is [pc, worker]; of the pipeline only what bears on   *)
(* the job's status is kept: the lifecycle write, the block in             *)
(* SET_STATUS(PROPOSED) / WAIT_FOR_APPROVAL, and the final write.          *)
(***************************************************************************)
MaxThreads == 2

Threads == 1 .. MaxThreads

Thread(pc, worker) == [pc |-> pc, worker |-> worker]
FreeThread == Thread("free", FALSE)

\* the thread is inside run_agent_pipeline
InPipeline(e) == spc[e].pc \in { "started", "running", "blocked", "resumed" }

InitStart ==
    /\ jstatus = "QUEUED"
    /\ japproved = FALSE
    /\ spc = [e \in Threads |-> FreeThread]
    /\ ConfIdle /\ AuditIdle /\ PipelineIdle /\ CiIdle /\ StartRestIdle

startOthers == <<confVars, auditVars, pipelineVars, ciVars, startRest>>

\* api.py:161-190 (run_job): the handler checks the status, writes RUNNING
\* and starts the thread
StartApiRunJob(e) ==
    /\ spc[e] = FreeThread
    /\ jstatus \in { "QUEUED", "FAILED", "PAUSED", "BLOCKED", "PROPOSED" }
    /\ jstatus' = "RUNNING"
    /\ spc' = [spc EXCEPT ![e] = Thread("started", FALSE)]
    /\ UNCHANGED <<japproved, startOthers>>

\* dashboard_server.py:239, artifact_store.py:183-193: fetch_next_agent_job
\* returned the job
StartWorkerFetch(e) ==
    /\ spc[e] = FreeThread
    /\ jstatus = "QUEUED"
    /\ spc' = [spc EXCEPT ![e] = Thread("fetched", TRUE)]
    /\ UNCHANGED <<jstatus, japproved, startOthers>>

\* dashboard_server.py:246-249, artifact_store.py:195-203: the worker marks
\* the fetched job RUNNING and calls the pipeline
StartWorkerRun(e) ==
    /\ spc[e].pc = "fetched"
    /\ jstatus' = "RUNNING"
    /\ spc' = [spc EXCEPT ![e].pc = "started"]
    /\ UNCHANGED <<japproved, startOthers>>

\* agent_runner.py:83-96
StartPipeLifecycle(e) ==
    /\ spc[e].pc = "started"
    /\ jstatus' = "RUNNING"
    /\ spc' = [spc EXCEPT ![e].pc = "running"]
    /\ UNCHANGED <<japproved, startOthers>>

\* executor: SET_STATUS(PROPOSED), then WAIT_FOR_APPROVAL blocks
StartPipeBlock(e) ==
    /\ spc[e].pc = "running"
    /\ jstatus' = "PROPOSED"
    /\ spc' = [spc EXCEPT ![e].pc = "blocked"]
    /\ UNCHANGED <<japproved, startOthers>>

\* agent_runner.py:37-43: the wait ends on the APPROVED event
StartPipeResume(e) ==
    /\ spc[e].pc = "blocked"
    /\ jstatus # "ABORTED"
    /\ japproved
    /\ spc' = [spc EXCEPT ![e].pc = "resumed"]
    /\ UNCHANGED <<jstatus, japproved, startOthers>>

\* agent_runner.py:191-205: the pipeline writes its final status and
\* returns: ABORTED out of the wait, COMPLETED or FAILED otherwise
StartPipeReturn(e) ==
    /\ \/ /\ spc[e].pc = "blocked"
          /\ jstatus = "ABORTED"
          /\ jstatus' = "ABORTED"
       \/ /\ spc[e].pc \in { "running", "resumed" }
          /\ jstatus' \in { "COMPLETED", "FAILED" }
    /\ spc' = [spc EXCEPT ![e] = IF spc[e].worker
                                 THEN Thread("returned", TRUE)
                                 ELSE FreeThread]
    /\ UNCHANGED <<japproved, startOthers>>

\* dashboard_server.py:258-259: the worker completes a job still RUNNING
StartWorkerFinish(e) ==
    /\ spc[e].pc = "returned"
    /\ jstatus' = IF jstatus = "RUNNING" THEN "COMPLETED" ELSE jstatus
    /\ spc' = [spc EXCEPT ![e] = FreeThread]
    /\ UNCHANGED <<japproved, startOthers>>

\* api.py:193-237 (job_action)
StartJobAction ==
    /\ \E act \in ControlActs :
          LET st == RequestStatus(act, jstatus)
          IN  /\ jstatus' = IF st = "" THEN jstatus ELSE st
              /\ japproved' = (japproved \/ act = "approve")
    /\ UNCHANGED <<spc, startOthers>>

NextStart ==
    \/ \E e \in Threads :
          \/ StartApiRunJob(e) \/ StartWorkerFetch(e) \/ StartWorkerRun(e)
          \/ StartPipeLifecycle(e) \/ StartPipeBlock(e) \/ StartPipeResume(e)
          \/ StartPipeReturn(e) \/ StartWorkerFinish(e)
    \/ StartJobAction

SpecStart == InitStart /\ [][NextStart]_vars

-----------------------------------------------------------------------------
(***************************************************************************)
(* storage/artifact_store.py: the job_events table of one job.  rows is    *)
(* the table in rowid order (AUTOINCREMENT: the order of the INSERTs),     *)
(* clock the wall clock in whole seconds, listing the ids of the rows in   *)
(* the order the last get_job_events returned them.                        *)
(***************************************************************************)
MaxRows == 3
MaxClock == 2

EventTypes == { "QUEUED", "STATUS", "LOG" }

\* artifact_store.py:10-11: the timestamp has the resolution of one second
now == clock

JobEventRow(id, typ, created_at) ==
    [id |-> id, type |-> typ, created_at |-> created_at]

\* ORDER BY created_at: every order of the rows in which created_at never
\* decreases; SQL leaves the order of rows with equal keys open
OrderByCreatedAt(table) ==
    { s \in [1 .. Len(table) -> 1 .. Len(table)] :
        /\ \A i, j \in 1 .. Len(table) : i # j => s[i] # s[j]
        /\ \A i, j \in 1 .. Len(table) :
              i < j => table[s[i]].created_at <= table[s[j]].created_at }

InitEvents ==
    /\ rows = <<>>
    /\ clock = 0
    /\ listing = <<>>
    /\ ConfIdle /\ AuditIdle /\ PipelineIdle /\ CiIdle /\ EventRestIdle

eventOthers == <<confVars, auditVars, pipelineVars, ciVars, eventRest>>

\* a second passes
EventsTick ==
    /\ clock < MaxClock
    /\ clock' = clock + 1
    /\ UNCHANGED <<rows, listing, eventOthers>>

\* artifact_store.py:229-235 (append_job_event), also reached from
\* enqueue_agent_job and update_agent_job_status
EventsAppend ==
    /\ Len(rows) < MaxRows
    /\ \E typ \in EventTypes :
          rows' = Append(rows, JobEventRow(Len(rows) + 1, typ, now))
    /\ UNCHANGED <<clock, listing, eventOthers>>

\* artifact_store.py:237-242 (get_job_events)
EventsGet ==
    /\ \E s \in OrderByCreatedAt(rows) :
          listing' = [i \in 1 .. Len(rows) |-> rows[s[i]].id]
    /\ UNCHANGED <<rows, clock, eventOthers>>

NextEvents == EventsTick \/ EventsAppend \/ EventsGet

SpecEvents == InitEvents /\ [][NextEvents]_vars

-----------------------------------------------------------------------------
(***************************************************************************)
(* analysis/safety_verifier.py: verify_safe_change(old_content,            *)
(* new_content, max_changed_lines).  A content is the sequence of its      *)
(* lines (str.splitlines); the lines are a top-level import, the header of *)
(* a top-level function, and four lines of a function body, one of them an *)
(* import and one a call with a forbidden substring in upper case.         *)
(***************************************************************************)
MaxOldLines == 2
MaxNewLines == 3
MaxBudget   == 4

SourceLines == { "import a", "def f():", "    x = 1", "    x = 2",
                 "    import b", "    q('DROP TABLE')" }

Contents(n) == UNION { [1 .. k -> SourceLines] : k \in 0 .. n }

Budgets == 0 .. MaxBudget

\* safety_verifier.py:6-13
FORBIDDEN_SUBSTRINGS == << "rm -rf", "drop table", "alter user", "delete from",
                           "truncate", "chmod 777" >>

\* str.lower() on the lines of the model
LowerLine(l) == IF l = "    q('DROP TABLE')" THEN "    q('drop table')" ELSE l

\* bad in lower (safety_verifier.py:22), for a lower-cased line
BadIn(bad, l) == bad = "drop table" /\ l = "    q('drop table')"

\* the forbidden substrings found in the content, in the order of the list
ForbiddenFound(content) ==
    SelectSeq(FORBIDDEN_SUBSTRINGS,
              LAMBDA bad : \E k \in 1 .. Len(content) :
                              BadIn(bad, LowerLine(content[k])))

Indented(l) == l \in { "    x = 1", "    x = 2", "    import b",
                       "    q('DROP TABLE')" }

\* ast.parse succeeds (safety_verifier.py:25-33): an indented line continues
\* the block of a function header, and every header has a block
Parses(content) ==
    \A k \in 1 .. Len(content) :
        /\ Indented(content[k]) =>
              k > 1 /\ (content[k - 1] = "def f():" \/ Indented(content[k - 1]))
        /\ content[k] = "def f():" =>
              k < Len(content) /\ Indented(content[k + 1])

\* safety_verifier.py:53-60: the import statements of tree.body
imports_signature(content) ==
    SelectSeq(content, LAMBDA l : l = "import a")

\* safety_verifier.py:63-72: the definitions of tree.body
top_defs_signature(content) ==
    SelectSeq(content, LAMBDA l : l = "def f():")

\* difflib.SequenceMatcher.find_longest_match without junk: the longest
\* common block, of those the one starting first in a, of those the one
\* starting first in b; k = 0 when no line is common
find_longest_match(a, b) ==
    LET Blocks == { m \in [i : 1 .. Len(a), j : 1 .. Len(b), k : 1 .. Len(a)] :
                      /\ m.i + m.k - 1 <= Len(a)
                      /\ m.j + m.k - 1 <= Len(b)
                      /\ SubSeq(a, m.i, m.i + m.k - 1)
                           = SubSeq(b, m.j, m.j + m.k - 1) }
    IN  IF Blocks = {}
        THEN [i |-> 1, j |-> 1, k |-> 0]
        ELSE CHOOSE m \in Blocks :
                \A n \in Blocks :
                    \/ n.k < m.k
                    \/ n.k = m.k /\ m.i < n.i
                    \/ n.k = m.k /\ m.i = n.i /\ m.j <= n.j

DiffLine(tag, l) == [tag |-> tag, line |-> l]

Tagged(tag, s) == [k \in 1 .. Len(s) |-> DiffLine(tag, s[k])]

\* difflib get_opcodes as the lines of one hunk: around the longest block,
\* the lines of a that match nothing are removed, those of b added
RECURSIVE HunkLines(_, _)
HunkLines(a, b) ==
    IF a = <<>> /\ b = <<>> THEN <<>>
    ELSE LET m == find_longest_match(a, b)
         IN  IF m.k = 0
             THEN Tagged("-", a) \o Tagged("+", b)
             ELSE HunkLines(SubSeq(a, 1, m.i - 1), SubSeq(b, 1, m.j - 1))
                  \o Tagged(" ", SubSeq(a, m.i, m.i + m.k - 1))
                  \o HunkLines(SubSeq(a, m.i + m.k, Len(a)),
                               SubSeq(b, m.j + m.k, Len(b)))

\* difflib.unified_diff(a, b, lineterm=""): nothing for equal sequences,
\* else the two file headers, the hunk header and the hunk; with at most
\* three lines of context around a change the contents of the model always
\* give one hunk that holds every line
unified_diff(a, b) ==
    IF a = b THEN <<>>
    ELSE << DiffLine("-", "-- "), DiffLine("+", "++ "), DiffLine("@", "@") >>
         \o HunkLines(a, b)

\* line.startswith(c)
startswith(l, c) == l.tag = c

Verdict(ok, reason) == [ok |-> ok, reason |-> reason]

\* mutant: the count that forgets the two file headers
verify_safe_change_counting_headers(old, new, max_changed_lines) ==
    IF new = <<>> THEN Verdict(FALSE, "Empty new content")
    ELSE IF ForbiddenFound(new) # <<>>
    THEN Verdict(FALSE, "Forbidden substring detected: "
                          \o Head(ForbiddenFound(new)))
    ELSE IF ~Parses(old)
    THEN Verdict(FALSE, "Old content failed to parse as Python")
    ELSE IF ~Parses(new)
    THEN Verdict(FALSE, "New content failed to parse as Python")
    ELSE IF imports_signature(new) # imports_signature(old)
    THEN Verdict(FALSE, "Imports changed (not allowed)")
    ELSE IF top_defs_signature(new) # top_defs_signature(old)
    THEN Verdict(FALSE, "Top-level function/class definitions changed (not allowed)")
    ELSE LET udiff   == unified_diff(old, new)
             changed == Cardinality({ k \in 1 .. Len(udiff) :
                            startswith(udiff[k], "+")
                              \/ startswith(udiff[k], "-") })
         IN  IF changed > max_changed_lines
             THEN Verdict(FALSE, "Too many changed lines")
             ELSE Verdict(TRUE, "OK")

\* safety_verifier.py:16-50
verify_safe_change(old, new, max_changed_lines) ==
    IF new = <<>> THEN Verdict(FALSE, "Empty new content")
    ELSE IF ForbiddenFound(new) # <<>>
    THEN Verdict(FALSE, "Forbidden substring detected: "
                          \o Head(ForbiddenFound(new)))
    ELSE IF ~Parses(old)
    THEN Verdict(FALSE, "Old content failed to parse as Python")
    ELSE IF ~Parses(new)
    THEN Verdict(FALSE, "New content failed to parse as Python")
    ELSE IF imports_signature(new) # imports_signature(old)
    THEN Verdict(FALSE, "Imports changed (not allowed)")
    ELSE IF top_defs_signature(new) # top_defs_signature(old)
    THEN Verdict(FALSE, "Top-level function/class definitions changed (not allowed)")
    ELSE LET udiff   == unified_diff(old, new)
             changed == Cardinality({ k \in 1 .. Len(udiff) :
                            startswith(udiff[k], "+")
                              \/ startswith(udiff[k], "-") }) - 2
         IN  IF changed > max_changed_lines
             THEN Verdict(FALSE, "Too many changed lines")
             ELSE Verdict(TRUE, "OK")

InitSafety ==
    /\ old_content \in Contents(MaxOldLines)
    /\ new_content = <<>>
    /\ verdict = <<>>
    /\ SafetyRestIdle

\* one change is verified, under every line budget of Budgets
VerifyChange ==
    /\ verdict = <<>>
    /\ \E new \in Contents(MaxNewLines) :
          /\ new_content' = new
          /\ verdict' = [m \in Budgets |->
                            verify_safe_change(old_content, new, m)]
    /\ UNCHANGED <<old_content, safetyRest>>

NextSafety == VerifyChange

SpecSafety == InitSafety /\ [][NextSafety]_vars

-----------------------------------------------------------------------------
(***************************************************************************)
(* agents/failure_diagnoser.py: diagnose_failure(ctx).  A text is the      *)
(* sequence of the fragments it is the concatenation of; a pattern is `in` *)
(* the text when its fragments occur there side by side.  The fragments    *)
(* are the patterns of the code, cut where one pattern ends inside another *)
(* ("target snippet " + "not found", "apply_" + "patch failed").           *)
(***************************************************************************)
MaxMessageLen == 2

Fragments ==
    { "not found", "no such file or directory",
      "timed out", "dns", "name resolution", "connection error",
      "temporarily unavailable",
      "GitHub", "401", "403", "bad credentials", "requires authentication",
      "non-fast-forward", "protected branch", "permission denied", "rejected",
      "http", "connection refused", "econnrefused", "socket hang up",
      "target snippet ", "apply_", "patch failed", "edit_file failed",
      "append_file", "boom" }

FailureOps == { "VERIFY_HTTP_ENDPOINT", "COMMIT_PUSH_PR" }

\* failure_diagnoser.py:10-23: the fields diagnose_failure reads
FailureContexts ==
    [op : FailureOps,
     exception_message :
         UNION { [1 .. n -> Fragments] : n \in 0 .. MaxMessageLen },
     trace_tail : UNION { [1 .. n -> Fragments] : n \in 0 .. 1 }]

\* str.lower() on the fragments and ops of the model
LowerText(s) ==
    [k \in 1 .. Len(s) |-> IF s[k] = "GitHub" THEN "github" ELSE s[k]]
LowerOp(op) ==
    IF op = "VERIFY_HTTP_ENDPOINT" THEN "verify_http_endpoint"
    ELSE "commit_push_pr"

\* pat in text, pat a sequence of fragments
InText(pat, text) ==
    \E k \in 1 .. Len(text) - Len(pat) + 1 :
        SubSeq(text, k, k + Len(pat) - 1) = pat

\* any(x in text for x in pats)
AnyIn(pats, text) == \E pat \in pats : InText(pat, text)

Diagnosis(category, retryable) ==
    [category |-> category, retryable |-> retryable]

\* mutant: a rejected push is handed to the retry step
diagnose_failure_push_retryable(ctx) ==
    LET msg  == LowerText(ctx.exception_message)
        tb   == LowerText(ctx.trace_tail)
        text == msg \o << "\n" >> \o tb
    IN  IF AnyIn({ << "not found" >>, << "no such file or directory" >> }, text)
        THEN Diagnosis("TOOL_MISSING", FALSE)
        ELSE IF AnyIn({ << "timed out" >>, << "dns" >>, << "name resolution" >>,
                        << "connection error" >>,
                        << "temporarily unavailable" >> }, text)
        THEN Diagnosis("NETWORK", TRUE)
        ELSE IF /\ InText(<< "github" >>, text)
                /\ AnyIn({ << "401" >>, << "403" >>, << "bad credentials" >>,
                           << "requires authentication" >> }, text)
        THEN Diagnosis("GITHUB_AUTH", FALSE)
        ELSE IF AnyIn({ << "non-fast-forward" >>, << "protected branch" >>,
                        << "permission denied" >>, << "rejected" >> }, text)
        THEN Diagnosis("GIT_PUSH_REJECTED", TRUE)
        ELSE IF \/ LowerOp(ctx.op) = "verify_http_endpoint"
                \/ InText(<< "http" >>, text)
        THEN Diagnosis("VERIFICATION_HTTP",
                       AnyIn({ << "connection refused" >>, << "econnrefused" >>,
                               << "socket hang up" >> }, text))
        ELSE IF AnyIn({ << "target snippet ", "not found" >>,
                        << "apply_", "patch failed" >>, << "patch failed" >>,
                        << "edit_file failed" >> }, text)
        THEN Diagnosis("EDIT_ANCHOR_MISMATCH", FALSE)
        ELSE IF InText(<< "append_file" >>, text)
        THEN Diagnosis("APPEND_FAILED", FALSE)
        ELSE Diagnosis("UNKNOWN", FALSE)

\* failure_diagnoser.py:81-231
diagnose_failure(ctx) ==
    LET msg  == LowerText(ctx.exception_message)
        tb   == LowerText(ctx.trace_tail)
        text == msg \o << "\n" >> \o tb
    IN  IF AnyIn({ << "not found" >>, << "no such file or directory" >> }, text)
        THEN Diagnosis("TOOL_MISSING", FALSE)
        ELSE IF AnyIn({ << "timed out" >>, << "dns" >>, << "name resolution" >>,
                        << "connection error" >>,
                        << "temporarily unavailable" >> }, text)
        THEN Diagnosis("NETWORK", TRUE)
        ELSE IF /\ InText(<< "github" >>, text)
                /\ AnyIn({ << "401" >>, << "403" >>, << "bad credentials" >>,
                           << "requires authentication" >> }, text)
        THEN Diagnosis("GITHUB_AUTH", FALSE)
        ELSE IF AnyIn({ << "non-fast-forward" >>, << "protected branch" >>,
                        << "permission denied" >>, << "rejected" >> }, text)
        THEN Diagnosis("GIT_PUSH_REJECTED", FALSE)
        ELSE IF \/ LowerOp(ctx.op) = "verify_http_endpoint"
                \/ InText(<< "http" >>, text)
        THEN Diagnosis("VERIFICATION_HTTP",
                       AnyIn({ << "connection refused" >>, << "econnrefused" >>,
                               << "socket hang up" >> }, text))
        ELSE IF AnyIn({ << "target snippet ", "not found" >>,
                        << "apply_", "patch failed" >>, << "patch failed" >>,
                        << "edit_file failed" >> }, text)
        THEN Diagnosis("EDIT_ANCHOR_MISMATCH", FALSE)
        ELSE IF InText(<< "append_file" >>, text)
        THEN Diagnosis("APPEND_FAILED", FALSE)
        ELSE Diagnosis("UNKNOWN", FALSE)

InitDiagnose ==
    /\ fctx \in FailureContexts
    /\ diagnosis = NoDiagnosis
    /\ DiagRestIdle

Diagnose ==
    /\ diagnosis = NoDiagnosis
    /\ diagnosis' = diagnose_failure(fctx)
    /\ UNCHANGED <<fctx, diagRest>>

NextDiagnose == Diagnose

SpecDiagnose == InitDiagnose /\ [][NextDiagnose]_vars

-----------------------------------------------------------------------------
(***************************************************************************)
(* The blocking waits of a running pipeline over the job's event log:      *)
(* JobControl.wait_for_event (agents/agent_runner.py) behind a proposal,   *)
(* JobControl.wait_for_user_input (agents/job_control.py) behind a         *)
(* question, and the control requests of api.py job_action that answer     *)
(* them.  One action is one iteration of a polling loop: its status read   *)
(* and its event read commute with a control request that lands between    *)
(* them.  waiter.opened is the length of the log when the wait was opened. *)
(***************************************************************************)
MaxLog == 3

Waiter(pc, kind, opened) == [pc |-> pc, kind |-> kind, opened |-> opened]

Logged(typ) == \E k \in 1 .. Len(wlog) : wlog[k] = typ

InitWait ==
    /\ wlog = <<>>
    /\ wstatus = "RUNNING"
    /\ waiter = NoWaiter
    /\ WaitRestIdle

\* the pipeline is running and not inside a wait
WaiterFree == waiter.pc \in { "idle", "returned" }

\* executor: SET_STATUS(PROPOSED), then WAIT_FOR_APPROVAL enters
\* wait_for_event("APPROVED") (plan_auditor.py:107-108)
WaitOpenProposal ==
    /\ WaiterFree
    /\ Len(wlog) < MaxLog
    /\ wlog' = Append(wlog, "STATUS")
    /\ wstatus' = "PROPOSED"
    /\ waiter' = Waiter("polling", "event", Len(wlog) + 1)
    /\ UNCHANGED waitRest

\* job_control.py:23-26 (block_with_question), then wait_for_user_input
WaitOpenQuestion ==
    /\ WaiterFree
    /\ Len(wlog) < MaxLog
    /\ wlog' = Append(wlog, "QUESTION")
    /\ wstatus' = "BLOCKED"
    /\ waiter' = Waiter("polling", "input", Len(wlog) + 1)
    /\ UNCHANGED waitRest

\* api.py:193-237 (job_action)
WaitJobAction ==
    /\ Len(wlog) < MaxLog
    /\ \E act \in ControlActs :
          LET st == RequestStatus(act, wstatus)
          IN  /\ wlog' = Append(wlog, RequestEvent(act))
              /\ wstatus' = IF st = "" THEN wstatus ELSE st
    /\ UNCHANGED <<waiter, waitRest>>

\* mutant: the iteration that looks for the event before the abort
WaitPollEventFirst ==
    /\ waiter.pc = "polling" /\ waiter.kind = "event"
    /\ waiter' = IF Logged("APPROVED")
                 THEN [waiter EXCEPT !.pc = "returned"]
                 ELSE IF wstatus = "ABORTED"
                 THEN [waiter EXCEPT !.pc = "raised"]
                 ELSE waiter
    /\ UNCHANGED <<wlog, wstatus, waitRest>>

\* agent_runner.py:37-43: one iteration of wait_for_event("APPROVED")
WaitPollEvent ==
    /\ waiter.pc = "polling" /\ waiter.kind = "event"
    /\ waiter' = IF wstatus = "ABORTED"
                 THEN [waiter EXCEPT !.pc = "raised"]
                 ELSE IF Logged("APPROVED")
                 THEN [waiter EXCEPT !.pc = "returned"]
                 ELSE waiter
    /\ UNCHANGED <<wlog, wstatus, waitRest>>

\* job_control.py:28-43: one iteration of wait_for_user_input; the store's
\* get_latest_job_event gives the latest event of the type, if any
WaitPollInput ==
    /\ waiter.pc = "polling" /\ waiter.kind = "input"
    /\ waiter' = IF wstatus \in { "ABORTED", "CANCELLED" }
                 THEN [waiter EXCEPT !.pc = "raised"]
                 ELSE IF wstatus = "PAUSED"
                 THEN waiter
                 ELSE IF Logged("USER_INPUT")
                 THEN [waiter EXCEPT !.pc = "returned"]
                 ELSE waiter
    /\ UNCHANGED <<wlog, wstatus, waitRest>>

NextWait ==
    \/ WaitOpenProposal \/ WaitOpenQuestion \/ WaitJobAction
    \/ WaitPollEvent \/ WaitPollInput

SpecWait == InitWait /\ [][NextWait]_vars

\* the polling thread is scheduled again and again
SpecWaitFair == SpecWait /\ WF_vars(WaitPollEvent)

-----------------------------------------------------------------------------
(***************************************************************************)
(* Specification of should_enter_proposal_mode: one call with any keyword  *)
(* arguments of GateInputs.  The confidence is in hundredths and within    *)
(* the range that compute_confidence returns.                              *)
(***************************************************************************)
GateConfidences == { 0, 25, 99, 100 }

GateInputs ==
    [confidence : GateConfidences, changed_files_count : 0 .. 2,
     impacted_files_count : { 0, 1, 3, 4 }, used_llm : BOOLEAN,
     touches_sensitive_area : BOOLEAN]

InitGate == gin \in GateInputs /\ gmode = "" /\ GateRestIdle

\* main.py:750-756: decision = should_enter_proposal_mode(...)
Gate ==
    /\ gmode = ""
    /\ gmode' = should_enter_proposal_mode(gin.confidence,
                    gin.changed_files_count, gin.impacted_files_count,
                    gin.used_llm, gin.touches_sensitive_area)
    /\ UNCHANGED <<gin, gateRest>>

NextGate == Gate

SpecGate == InitGate /\ [][NextGate]_vars

-----------------------------------------------------------------------------
(***************************************************************************)
(* Specification of build_execution_plan_strict with all four arguments:   *)
(* two calls with the same action and any prompt, intent object and repo   *)
(* facts.  A step is [op, args], args the sequence of its <<key, value>>   *)
(* pairs; Python values are written as their text.                         *)
(***************************************************************************)
SUPPORTED_ACTIONS ==
    { "fix_bugs", "run_tests", "refactor", "add_feature", "generate_project",
      "create_pr" }

\* action strings: the supported ones, and others that differ from them in
\* case, by a blank, or altogether
PlannerActions ==
    SUPPORTED_ACTIONS \cup { "", "FIX_BUGS", "create_pr ", "deploy" }

PlannerArgs ==
    [prompt : { "", "add login" },
     intent_obj : { "None", "{}", "{intent: bugfix, confidence: 0.9}" },
     repo_facts : { "None", "{}", "{lang: py}" }]

Step(op, args) == [op |-> op, args |-> args]

\* strict_planner.py:53
IntentOf(intent_obj) ==
    CASE intent_obj = "None" -> "unknown"
      [] intent_obj = "{}"   -> "None"
      [] OTHER               -> "bugfix"

\* repo_facts or {} (strict_planner.py:57)
FactsOrEmpty(repo_facts) == IF repo_facts = "None" THEN "{}" ELSE repo_facts

StrictPlan(intent, act, steps, notes) ==
    [intent |-> intent, action |-> act, steps |-> steps, notes |-> notes]

\* mutant: the planner that skips the README step when the prompt is empty
build_plan_prompt_dependent(act, prompt, intent_obj, repo_facts) ==
    LET intent  == IntentOf(intent_obj)
        analyze == Step("ANALYZE_REPO",
                        << <<"repo_facts", FactsOrEmpty(repo_facts)>> >>)
        gate    == << Step("SET_STATUS", << <<"status", "PROPOSED">> >>),
                      Step("WAIT_FOR_APPROVAL", <<>>) >>
    IN  IF act \in { "fix_bugs", "run_tests" }
        THEN StrictPlan(intent, act,
               << analyze, Step("RUN_TESTS_SAFE", << <<"mode", "pytest">> >>),
                  Step("SET_STATUS", << <<"status", "COMPLETED">> >>) >>, "")
        ELSE IF act = "refactor"
        THEN StrictPlan(intent, act,
               << analyze,
                  Step("FORMAT_BLACK",
                       << <<"path", ".">>, <<"best_effort", "True">> >>),
                  Step("CAPTURE_DIFF", <<>>),
                  Step("SET_STATUS", << <<"status", "COMPLETED">> >>) >>, "")
        ELSE IF act = "add_feature"
        THEN StrictPlan(intent, act,
               << analyze, Step("SET_STATUS", << <<"status", "FAILED">> >>) >>,
               "Strict planner: add_feature requires audit approval")
        ELSE IF act = "generate_project"
        THEN StrictPlan(intent, act,
               << analyze >>
               \o (IF prompt = "" THEN <<>>
                   ELSE << Step("UPDATE_README",
                                << <<"kind", "generated_project">>,
                                   <<"prompt", prompt>> >>) >>)
               \o << Step("CAPTURE_DIFF", <<>>) >> \o gate
               \o << Step("COMMIT_PUSH_PR",
                          << <<"title", "AutoTriage: generate project">>,
                             <<"prompt", prompt>> >>) >>, "")
        ELSE IF act = "create_pr"
        THEN StrictPlan(intent, act,
               << analyze, Step("CAPTURE_DIFF", <<>>) >> \o gate
               \o << Step("COMMIT_PUSH_PR",
                          << <<"title", "AutoTriage: create PR">>,
                             <<"prompt", prompt>> >>) >>, "")
        ELSE StrictPlan(intent, act,
               << analyze, Step("SET_STATUS", << <<"status", "FAILED">> >>) >>,
               "Unsupported action")

\* strict_planner.py:37-126
build_plan(act, prompt, intent_obj, repo_facts) ==
    LET intent  == IntentOf(intent_obj)
        analyze == Step("ANALYZE_REPO",
                        << <<"repo_facts", FactsOrEmpty(repo_facts)>> >>)
        gate    == << Step("SET_STATUS", << <<"status", "PROPOSED">> >>),
                      Step("WAIT_FOR_APPROVAL", <<>>) >>
    IN  IF act \in { "fix_bugs", "run_tests" }
        THEN StrictPlan(intent, act,
               << analyze, Step("RUN_TESTS_SAFE", << <<"mode", "pytest">> >>),
                  Step("SET_STATUS", << <<"status", "COMPLETED">> >>) >>, "")
        ELSE IF act = "refactor"
        THEN StrictPlan(intent, act,
               << analyze,
                  Step("FORMAT_BLACK",
                       << <<"path", ".">>, <<"best_effort", "True">> >>),
                  Step("CAPTURE_DIFF", <<>>),
                  Step("SET_STATUS", << <<"status", "COMPLETED">> >>) >>, "")
        ELSE IF act = "add_feature"
        THEN StrictPlan(intent, act,
               << analyze, Step("SET_STATUS", << <<"status", "FAILED">> >>) >>,
               "Strict planner: add_feature requires audit approval")
        ELSE IF act = "generate_project"
        THEN StrictPlan(intent, act,
               << analyze,
                  Step("UPDATE_README",
                       << <<"kind", "generated_project">>,
                          <<"prompt", prompt>> >>),
                  Step("CAPTURE_DIFF", <<>>) >> \o gate
               \o << Step("COMMIT_PUSH_PR",
                          << <<"title", "AutoTriage: generate project">>,
                             <<"prompt", prompt>> >>) >>, "")
        ELSE IF act = "create_pr"
        THEN StrictPlan(intent, act,
               << analyze, Step("CAPTURE_DIFF", <<>>) >> \o gate
               \o << Step("COMMIT_PUSH_PR",
                          << <<"title", "AutoTriage: create PR">>,
                             <<"prompt", prompt>> >>) >>, "")
        ELSE StrictPlan(intent, act,
               << analyze, Step("SET_STATUS", << <<"status", "FAILED">> >>) >>,
               "Unsupported action")

InitPlanner ==
    /\ paction \in PlannerActions
    /\ pargs_a \in PlannerArgs /\ pargs_b \in PlannerArgs
    /\ pplan_a = NoStrictPlan /\ pplan_b = NoStrictPlan
    /\ PlannerRestIdle

\* agent_runner.py:142-147: raw_plan = build_execution_plan_strict(...)
PlanFirst ==
    /\ pplan_a = NoStrictPlan
    /\ pplan_a' = build_plan(paction, pargs_a.prompt, pargs_a.intent_obj,
                             pargs_a.repo_facts)
    /\ UNCHANGED <<paction, pargs_a, pargs_b, pplan_b, plannerRest>>

\* the same call for the same action with the second set of arguments
PlanSecond ==
    /\ pplan_b = NoStrictPlan
    /\ pplan_b' = build_plan(paction, pargs_b.prompt, pargs_b.intent_obj,
                             pargs_b.repo_facts)
    /\ UNCHANGED <<paction, pargs_a, pargs_b, pplan_a, plannerRest>>

NextPlanner == PlanFirst \/ PlanSecond

SpecPlanner == InitPlanner /\ [][NextPlanner]_vars

-----------------------------------------------------------------------------
(***************************************************************************)
(* Specification of a question to the user: the pipeline thread runs       *)
(* block_with_question and then wait_for_user_input, one statement at a    *)
(* time, while provide_input requests run job_action one statement at a    *)
(* time.  The store calls update_job_status and get_latest_job_event do    *)
(* what their names say.                                                   *)
(***************************************************************************)
MaxRequests == 2

Request(pc, seen) == [pc |-> pc, seen |-> seen]

InitBlock ==
    /\ blog = <<>>
    /\ bstatus = "RUNNING"
    /\ bpipe = "running"
    /\ breq = [k \in 1 .. MaxRequests |-> Request("idle", "")]
    /\ BlockRestIdle

\* job_control.py:24-25: append_job_event(job_id, "QUESTION", ...)
BlockAppendQuestion ==
    /\ bpipe = "running"
    /\ blog' = Append(blog, "QUESTION")
    /\ bpipe' = "asked"
    /\ UNCHANGED <<bstatus, breq, blockRest>>

\* job_control.py:26: update_job_status(job_id, "BLOCKED")
BlockSetStatus ==
    /\ bpipe = "asked"
    /\ bstatus' = "BLOCKED"
    /\ bpipe' = "waiting"
    /\ UNCHANGED <<blog, breq, blockRest>>

\* job_control.py:30-41: one iteration of wait_for_user_input
BlockPollInput ==
    /\ bpipe = "waiting"
    /\ bpipe' = IF bstatus \in { "ABORTED", "CANCELLED" } THEN "raised"
                ELSE IF bstatus = "PAUSED" THEN "waiting"
                ELSE IF \E k \in 1 .. Len(blog) : blog[k] = "USER_INPUT"
                THEN "returned"
                ELSE "waiting"
    /\ UNCHANGED <<blog, bstatus, breq, blockRest>>

\* api.py:196: job = job_get(store, job_id)
RequestRead(k) ==
    /\ breq[k].pc = "idle"
    /\ breq' = [breq EXCEPT ![k] = Request("read", bstatus)]
    /\ UNCHANGED <<blog, bstatus, bpipe, blockRest>>

\* api.py:225: job_append_event(store, job_id, "USER_INPUT", data)
RequestAppend(k) ==
    /\ breq[k].pc = "read"
    /\ blog' = Append(blog, "USER_INPUT")
    /\ breq' = [breq EXCEPT ![k].pc = "appended"]
    /\ UNCHANGED <<bstatus, bpipe, blockRest>>

\* api.py:226-228: the status goes to RUNNING if the job read was BLOCKED
RequestUpdate(k) ==
    /\ breq[k].pc = "appended"
    /\ bstatus' = IF breq[k].seen = "BLOCKED" THEN "RUNNING" ELSE bstatus
    /\ breq' = [breq EXCEPT ![k].pc = "done"]
    /\ UNCHANGED <<blog, bpipe, blockRest>>

NextBlock ==
    \/ BlockAppendQuestion \/ BlockSetStatus \/ BlockPollInput
    \/ \E k \in 1 .. MaxRequests :
          RequestRead(k) \/ RequestAppend(k) \/ RequestUpdate(k)

SpecBlock == InitBlock /\ [][NextBlock]_vars

-----------------------------------------------------------------------------
(***************************************************************************)
(* Specification of one job's status and event log under concurrent        *)
(* writers: the thread that runs the job's pipeline, which writes its      *)
(* statuses with update_agent_job_status, and requests that open the store *)
(* through get_store (api.py) or abort the job (api.py job_action,         *)
(* dashboard_server.py job_action).  update_agent_job_status is two        *)
(* transactions, the UPDATE and then the STATUS event; init_db runs its    *)
(* clean-up UPDATE in one.                                                 *)
(***************************************************************************)
MaxCallers == 2

RequestKinds == { "open", "api_abort", "dash_abort" }

Caller(kind, pc) == [kind |-> kind, pc |-> pc]

TrailEvent(type, payload) == [type |-> type, payload |-> payload]

\* artifact_store.py:88-96: UPDATE agent_jobs SET status='FAILED' WHERE
\* status='RUNNING'
init_db(st) == IF st = "RUNNING" THEN "FAILED" ELSE st

InitTrail ==
    /\ tstatus = "QUEUED"
    /\ tlog = <<>>
    /\ tpipe = "fetched"
    /\ treq = [k \in 1 .. MaxCallers |-> Caller("", "idle")]
    /\ twriter = "enqueue"
    /\ TrailRestIdle

\* artifact_store.py:196-201 called at dashboard_server.py:247: the UPDATE
\* of update_agent_job_status(jid, "RUNNING")
TrailPipeWriteRunning ==
    /\ tpipe = "fetched"
    /\ tstatus' = "RUNNING"
    /\ twriter' = "pipeline"
    /\ tpipe' = "running_written"
    /\ UNCHANGED <<tlog, treq, trailRest>>

\* artifact_store.py:203: the STATUS event of that call; the pipeline then
\* executes its plan
TrailPipeLogRunning ==
    /\ tpipe = "running_written"
    /\ tlog' = Append(tlog, TrailEvent("STATUS", "RUNNING"))
    /\ tpipe' = "executing"
    /\ UNCHANGED <<tstatus, treq, twriter, trailRest>>

\* agent_runner.py:191, 201, 205: the UPDATE of the pipeline's final
\* update_agent_job_status
TrailPipeWriteFinal ==
    /\ tpipe = "executing"
    /\ \E s \in { "COMPLETED", "FAILED" } :
          /\ tstatus' = s
          /\ tpipe' = IF s = "COMPLETED" THEN "completed_written"
                      ELSE "failed_written"
    /\ twriter' = "pipeline"
    /\ UNCHANGED <<tlog, treq, trailRest>>

\* artifact_store.py:203: the STATUS event of the final call
TrailPipeLogFinal ==
    /\ tpipe \in { "completed_written", "failed_written" }
    /\ tlog' = Append(tlog, TrailEvent("STATUS",
                   IF tpipe = "completed_written" THEN "COMPLETED"
                   ELSE "FAILED"))
    /\ tpipe' = "returned"
    /\ UNCHANGED <<tstatus, treq, twriter, trailRest>>

\* api.py:37-43, Depends(get_store): the request opens the store and init_db
\* runs its clean-up; dashboard_server.py uses the store of the module
RequestOpen(k) ==
    /\ treq[k].pc = "idle"
    /\ \E kind \in RequestKinds :
          /\ treq' = [treq EXCEPT ![k] = Caller(kind,
                         IF kind = "open" THEN "done" ELSE "opened")]
          /\ tstatus' = IF kind = "dash_abort" THEN tstatus
                        ELSE init_db(tstatus)
          /\ twriter' = IF kind # "dash_abort" /\ tstatus = "RUNNING"
                        THEN "init_db" ELSE twriter
    /\ UNCHANGED <<tlog, tpipe, trailRest>>

\* api.py:215: job_append_event(store, job_id, "ABORT_REQUESTED")
ApiAbortAppend(k) ==
    /\ treq[k] = Caller("api_abort", "opened")
    /\ tlog' = Append(tlog, TrailEvent("ABORT_REQUESTED", ""))
    /\ treq' = [treq EXCEPT ![k].pc = "appended"]
    /\ UNCHANGED <<tstatus, tpipe, twriter, trailRest>>

\* api.py:216 with 106-121: job_update_status writes the status, no event
ApiAbortWrite(k) ==
    /\ treq[k] = Caller("api_abort", "appended")
    /\ tstatus' = "ABORTED"
    /\ twriter' = "control"
    /\ treq' = [treq EXCEPT ![k].pc = "done"]
    /\ UNCHANGED <<tlog, tpipe, trailRest>>

\* dashboard_server.py:217-218 with artifact_store.py:196-201: the UPDATE of
\* update_agent_job_status(job_id, "ABORTED")
DashAbortWrite(k) ==
    /\ treq[k] = Caller("dash_abort", "opened")
    /\ tstatus' = "ABORTED"
    /\ twriter' = "control"
    /\ treq' = [treq EXCEPT ![k].pc = "written"]
    /\ UNCHANGED <<tlog, tpipe, trailRest>>

\* artifact_store.py:203: the STATUS event of that call
DashAbortLog(k) ==
    /\ treq[k] = Caller("dash_abort", "written")
    /\ tlog' = Append(tlog, TrailEvent("STATUS", "ABORTED"))
    /\ treq' = [treq EXCEPT ![k].pc = "done"]
    /\ UNCHANGED <<tstatus, tpipe, twriter, trailRest>>

NextTrail ==
    \/ TrailPipeWriteRunning \/ TrailPipeLogRunning
    \/ TrailPipeWriteFinal \/ TrailPipeLogFinal
    \/ \E k \in 1 .. MaxCallers :
          \/ RequestOpen(k)
          \/ ApiAbortAppend(k) \/ ApiAbortWrite(k)
          \/ DashAbortWrite(k) \/ DashAbortLog(k)

SpecTrail == InitTrail /\ [][NextTrail]_vars

-----------------------------------------------------------------------------
(***************************************************************************)
(* Claims about compute_confidence (SpecConfidence)                        *)
(***************************************************************************)
AllEightGates ==
    /\ x.used_stack_trace
    /\ x.changed_files_count = 1
    /\ x.impacted_files_count = 0
    /\ x.ast_verified
    /\ x.safety_verified
    /\ x.used_rule_based
    /\ ~x.used_llm
    /\ x.file_lines <= 300

\* C1: compute_confidence returns exactly 1.0 if and only if all eight gates
\* hold together; every input failing a gate scores strictly below 1.0.
C1_PerfectIffAllGates == scored => (score = 100 <=> AllEightGates)

\* C2: for every ConfidenceInputs value, negative and very large integers
\* included, the returned score v satisfies 0.0 <= v <= 1.0.
C2_ScoreInUnitInterval == scored => (0 <= score /\ score <= 100)

\* C2 witness: a call whose additive score left [0,1] before the clamp
C2_Witness == scored /\ (RawScore(x) < 0 \/ RawScore(x) > 100) /\ ~AllEightGates

-----------------------------------------------------------------------------
(***************************************************************************)
(* Claims about audit_plan (SpecAudit)                                     *)
(***************************************************************************)
OpsOf(p) == [i \in 1 .. Len(p.steps) |-> p.steps[i].op]

IsForcedFailure(p) ==
    /\ Len(p.steps) = 2
    /\ p.steps[1].op = "ANALYZE_REPO"
    /\ p.steps[2] = PlanStep("SET_STATUS", "FAILED")

MutationSteps(p) ==
    {i \in 1 .. Len(p.steps) :
        p.steps[i].op \in {"CREATE_FILE", "EDIT_FILE", "APPLY_PATCH",
                           "DELETE_FILE", "APPEND_FILE"}}

MutatedPaths(p) == {Strip(p.steps[i].arg) : i \in MutationSteps(p)} \ {""}

WithinScope(p, pol) ==
    /\ Len(p.steps) <= pol.max_steps
    /\ Cardinality(MutationSteps(p)) <= pol.max_file_mutations
    /\ Cardinality(MutatedPaths(p)) <= pol.max_unique_paths_mutated

WithinPermissions(p, pol) ==
    /\ pol.allow_delete_file \/ "DELETE_FILE" \notin Range(OpsOf(p))
    /\ pol.allow_apply_patch \/ "APPLY_PATCH" \notin Range(OpsOf(p))

\* C3: the plan returned by audit_plan is the forced-failure plan or respects
\* the policy's scope bounds and its delete / patch permissions.
C3_AuditedPlanCompliant ==
    apc = "audited" =>
        \/ IsForcedFailure(audited)
        \/ WithinScope(audited, policy) /\ WithinPermissions(audited, policy)

\* C3 witness: a plan with disallowed steps that was stripped and kept
C3_Witness ==
    /\ apc = "audited"
    /\ ~WithinPermissions(plan, policy)
    /\ ~IsForcedFailure(audited)
    /\ Len(audited.steps) > 2

GateBeforePr(p) ==
    LET pr == FirstIndex(p.steps, "COMMIT_PUSH_PR")
    IN  \E i, j, k \in 1 .. pr :
            /\ i < j /\ j < k /\ k < pr
            /\ p.steps[i].op = "CAPTURE_DIFF"
            /\ IsProposed(p.steps[j])
            /\ p.steps[k].op = "WAIT_FOR_APPROVAL"

\* C4: under require_approval_before_pr every returned plan that is not the
\* forced-failure plan and contains COMMIT_PUSH_PR has CAPTURE_DIFF, then
\* SET_STATUS(PROPOSED), then WAIT_FOR_APPROVAL before its first COMMIT_PUSH_PR.
C4_ApprovalGateBeforePr ==
    ( /\ apc = "audited"
      /\ policy.require_approval_before_pr
      /\ ~IsForcedFailure(audited)
      /\ plan_has_op(audited, "COMMIT_PUSH_PR") )
    => GateBeforePr(audited)

\* C5: an input plan that breaches a scope limit yields exactly the two-step
\* forced-failure plan with an AUDIT_FAIL note carrying the reason, never a
\* stripped or gated version of the input.
C5_ScopeBreachForcesFailure ==
    (apc = "audited" /\ ~WithinScope(plan, policy)) =>
        /\ IsForcedFailure(audited)
        /\ Len(audited.notes) = Len(plan.notes) + 1
        /\ LET n == audited.notes[Len(audited.notes)]
           IN  /\ n.tag = "AUDIT_FAIL"
               /\ ~n.post
               /\ n.reason =
                    (IF Len(plan.steps) > policy.max_steps
                     THEN "plan too large"
                     ELSE IF Cardinality(MutationSteps(plan))
                               > policy.max_file_mutations
                     THEN "too many file mutations"
                     ELSE "too many unique files touched")

\* C5 witness: a breach that stripping the disallowed steps would have cured
C5_Witness ==
    /\ apc = "audited"
    /\ ~WithinScope(plan, policy)
    /\ ~WithinPermissions(plan, policy)
    /\ WithinScope(strip_disallowed_ops(plan, {"DELETE_FILE", "APPLY_PATCH"}).plan,
                   policy)
    /\ IsForcedFailure(audited)

\* C6: audit_plan is idempotent on step sequences: auditing the audited plan
\* again returns the same ordered steps.
C6_AuditIdempotent == apc = "audited" => reaudited.steps = audited.steps

\* C6 witness: a plan that the first audit gated, audited again
C6_Witness ==
    /\ apc = "audited"
    /\ audited.steps # plan.steps
    /\ ~IsForcedFailure(audited)
    /\ plan_has_op(audited, "WAIT_FOR_APPROVAL")

-----------------------------------------------------------------------------
(***************************************************************************)
(* Claims about run_agent_pipeline (SpecPipeline)                          *)
(***************************************************************************)
TerminalStatuses == { "COMPLETED", "ABORTED", "FAILED" }

\* C7: if a control-plane abort set the status to ABORTED while the pipeline
\* was running for the job, the status at the moment the pipeline returns is
\* ABORTED: the pipeline never overwrites ABORTED with COMPLETED or FAILED.
C7_AbortSurvivesPipeline ==
    (ppc = "done" /\ abortStanding) => statusAtReturn = "ABORTED"

TerminalWrites == { k \in 1 .. Len(pwrites) : pwrites[k] \in TerminalStatuses }

\* C8: an invocation that has returned wrote a terminal status exactly once,
\* as its last status write: COMPLETED when plan execution returned, ABORTED
\* when the ABORTED cancellation unwound it, FAILED after exactly one ERROR
\* event for any other exception.
C8_OneTerminalWriteLast ==
    ppc = "done" =>
        /\ Cardinality(TerminalWrites) = 1
        /\ Len(pwrites) \in TerminalWrites
        /\ poutcome = "completed" =>
               pwrites[Len(pwrites)] = "COMPLETED" /\ perrors = 0
        /\ poutcome = "aborted" =>
               pwrites[Len(pwrites)] = "ABORTED" /\ perrors = 0
        /\ poutcome = "failed" =>
               pwrites[Len(pwrites)] = "FAILED" /\ perrors = 1

-----------------------------------------------------------------------------
-----------------------------------------------------------------------------
(***************************************************************************)
(* Claims about the retry policy (SpecRetry)                               *)
(***************************************************************************)
\* C10: should_retry_from_ci(outcome, n): for category infra or flaky,
\* should_retry is true iff n < 3, with backoff_seconds 300; for category
\* legit it is false for every n; for category unknown it is true iff
\* n = 0; for a missing outcome it is false.
C10_RetryDecisionTable ==
    rpc = "decided" =>
        /\ outcome = NoOutcome => ~decision.should_retry
        /\ outcome.category \in { "infra", "flaky" } =>
               /\ decision.should_retry <=> attempts_in < 3
               /\ decision.backoff_seconds = 300
        /\ outcome.category = "legit" => ~decision.should_retry
        /\ outcome.category = "unknown" =>
               (decision.should_retry <=> attempts_in = 0)

\* C10 witness: a flaky outcome, recognised through lower-casing, refused at
\* the third previous attempt
C10_Witness ==
    /\ rpc = "decided"
    /\ outcome.category = "flaky"
    /\ attempts_in = 3
    /\ ~decision.should_retry

-----------------------------------------------------------------------------
(***************************************************************************)
(* Claims about the issue pipeline (SpecIssue)                             *)
(***************************************************************************)
PassEnded == ipath \notin { "idle", "start" }

\* C11: a pass raises the stored attempts to previous_attempts + 1 only when
\* its commit and push succeeded; a pass that pushed nothing leaves the
\* stored attempts as they were or equal to previous_attempts.
C11_AttemptsRaisedOnlyAfterPush ==
    PassEnded =>
        /\ (iretry # ibefore /\ ~iretry.none /\ iretry.attempts = iprev + 1)
               => ichange.pushed
        /\ ~ichange.pushed =>
               \/ iretry = ibefore
               \/ iretry.stored /\ ~iretry.none /\ iretry.attempts = iprev

\* C12: a generated change that verify_safe_change rejected is never
\* committed, pushed or opened as a pull request; it ends as a stored
\* proposal.
C12_UnsafeChangeOnlyProposed ==
    (PassEnded /\ ichange.generated /\ ~ichange.safe) =>
        /\ ~ichange.committed /\ ~ichange.pushed
        /\ ichange.pr = "none"
        /\ ichange.proposal

-----------------------------------------------------------------------------
(***************************************************************************)
(* Claims about resolve_engineering_mode (SpecMode)                        *)
(***************************************************************************)
\* policy p grants nothing that policy q does not
NoMorePermissive(p, q) ==
    /\ p.max_steps <= q.max_steps
    /\ p.max_file_mutations <= q.max_file_mutations
    /\ p.max_unique_paths_mutated <= q.max_unique_paths_mutated
    /\ p.allow_delete_file => q.allow_delete_file
    /\ p.allow_apply_patch => q.allow_apply_patch
    /\ q.require_approval_before_pr => p.require_approval_before_pr
    /\ q.require_verification_for_pr => p.require_verification_for_pr

\* C13: for confidences c1 <= c2 the policy resolved at c1 is no more
\* permissive than the policy resolved at c2: limits no larger, delete and
\* patch granted only if granted at c2, approval and verification required
\* whenever required at c2.
C13_ModeMonotonicInConfidence ==
    LET c1 == get_confidence(intent_a)
        c2 == get_confidence(intent_b)
    IN  (mpc = "resolved" /\ ~c1.nan /\ ~c2.nan /\ c1.v <= c2.v)
            => NoMorePermissive(policy_a, policy_b)

C13_Witness ==
    /\ mpc = "resolved"
    /\ intent_a.conf = "number" /\ intent_b.conf = "number"
    /\ intent_a.v = 55 /\ intent_b.v = 80
    /\ policy_a.name = "STANDARD" /\ policy_b.name = "AGGRESSIVE"

\* the intent carries no usable confidence
Unusable(intent_obj) ==
    \/ intent_obj.kind # "dict"
    \/ intent_obj.conf \in { "absent", "none", "string", "nan" }

\* C14: for an intent that is missing, not a dict, without confidence, or
\* with a confidence that is None, a non-numeric string or NaN,
\* resolve_engineering_mode returns the SAFE policy.
C14_UnusableConfidenceResolvesSafe ==
    (mpc = "resolved" /\ Unusable(intent_a)) => policy_a.name = "SAFE"

-----------------------------------------------------------------------------
(***************************************************************************)
(* Claims about the permission rewrite and the approval gate (SpecAudit)   *)
(***************************************************************************)
HasRealWork(steps) ==
    \E i \in 1 .. Len(steps) : steps[i].op \notin {"ANALYZE_REPO", "SET_STATUS"}

DeleteRefused ==
    /\ apc = "audited"
    /\ WithinScope(plan, policy)
    /\ "DELETE_FILE" \in Range(OpsOf(plan))
    /\ ~policy.allow_delete_file

\* a note of the rewrite that names the ops in removed
RewriteNoteNames(p, removed) ==
    \E i \in 1 .. Len(p.notes) :
        /\ p.notes[i].tag = "AUDIT_REWRITE"
        /\ p.notes[i].removed = removed

\* C15 as stated: for a plan within scope with DELETE_FILE steps under a
\* policy that refuses DELETE_FILE, the output has no DELETE_FILE step; when
\* at least 3 steps, one of them real work, remain without the DELETE_FILE
\* steps, the output is the input without exactly those steps, with an
\* AUDIT_REWRITE note naming them; otherwise it is the forced-failure plan.
C15_OnlyDeleteStepsRemoved ==
    DeleteRefused =>
        LET rest == SelectSeq(plan.steps, LAMBDA st : st.op # "DELETE_FILE")
            gone == SelectSeq(OpsOf(plan), LAMBDA o : o = "DELETE_FILE")
        IN  /\ "DELETE_FILE" \notin Range(OpsOf(audited))
            /\ IF Len(rest) >= 3 /\ HasRealWork(rest)
               THEN audited.steps = rest /\ RewriteNoteNames(audited, gone)
               ELSE IsForcedFailure(audited)

\* the steps the approval gate may insert, as one block
GateInserts ==
    { <<>>,
      <<PlanStep("SET_STATUS", "PROPOSED")>>,
      <<PlanStep("SET_STATUS", "PROPOSED"), PlanStep("WAIT_FOR_APPROVAL", "")>>,
      <<PlanStep("CAPTURE_DIFF", ""), PlanStep("SET_STATUS", "PROPOSED"),
        PlanStep("WAIT_FOR_APPROVAL", "")>> }

OnlyGateInserted(steps, out) ==
    \E k \in 1 .. (Len(steps) + 1), ins \in GateInserts :
        out = InsertAt(steps, k, ins)

\* C15 amended: the output has no DELETE_FILE step.  With R the input
\* without its refused steps (DELETE_FILE, and APPLY_PATCH when the policy
\* refuses it): when R has at least 3 steps, one of them real work, the
\* output is R, with at most the approval-gate steps inserted when the policy
\* requires approval and R has COMMIT_PUSH_PR, and its notes carry an
\* AUDIT_REWRITE note naming the removed ops, unless the gated plan exceeds
\* the scope, where the output is the forced-failure plan with a
\* post-rewrite AUDIT_FAIL note; otherwise the output is the forced-failure
\* plan.
C15_RefusedStepsRemovedThenGated ==
    DeleteRefused =>
        LET refused == {"DELETE_FILE"} \cup
                       (IF policy.allow_apply_patch THEN {}
                        ELSE {"APPLY_PATCH"})
            R    == SelectSeq(plan.steps, LAMBDA st : st.op \notin refused)
            gone == SelectSeq(OpsOf(plan), LAMBDA o : o \in refused)
            gated == /\ policy.require_approval_before_pr
                     /\ \E i \in 1 .. Len(R) : R[i].op = "COMMIT_PUSH_PR"
        IN  /\ "DELETE_FILE" \notin Range(OpsOf(audited))
            /\ IF Len(R) >= 3 /\ HasRealWork(R)
               THEN \/ /\ IF gated THEN OnlyGateInserted(R, audited.steps)
                                    ELSE audited.steps = R
                        /\ RewriteNoteNames(audited, gone)
                        /\ WithinScope(audited, policy)
                    \/ /\ gated
                        /\ IsForcedFailure(audited)
                        /\ audited.notes[Len(audited.notes)].tag = "AUDIT_FAIL"
                        /\ audited.notes[Len(audited.notes)].post
               ELSE IsForcedFailure(audited)

\* C15 witness: a plan whose DELETE_FILE step was removed and the rest kept
C15_Witness ==
    /\ DeleteRefused
    /\ Len(audited.steps) = Len(plan.steps) - 1
    /\ Len(audited.steps) >= 3
    /\ RewriteNoteNames(audited, <<"DELETE_FILE">>)

\* C16: for a plan within scope and permissions that has COMMIT_PUSH_PR and
\* no WAIT_FOR_APPROVAL, under a policy requiring approval, a plan that is
\* returned gated is the input with one block inserted right before the
\* first COMMIT_PUSH_PR: CAPTURE_DIFF exactly when none precedes that step,
\* SET_STATUS(PROPOSED) exactly when none precedes it, then
\* WAIT_FOR_APPROVAL.
C16_OnlyMissingGateStepsInserted ==
    ( /\ apc = "audited"
      /\ policy.require_approval_before_pr
      /\ WithinScope(plan, policy)
      /\ WithinPermissions(plan, policy)
      /\ "COMMIT_PUSH_PR" \in Range(OpsOf(plan))
      /\ "WAIT_FOR_APPROVAL" \notin Range(OpsOf(plan))
      /\ ~IsForcedFailure(audited) )
    =>
        LET pr     == FirstIndex(plan.steps, "COMMIT_PUSH_PR")
            before == SubSeq(plan.steps, 1, pr - 1)
            ins    == (IF "CAPTURE_DIFF" \in Range(OpsOf([steps |-> before]))
                       THEN <<>> ELSE <<PlanStep("CAPTURE_DIFF", "")>>)
                      \o (IF \E i \in 1 .. Len(before) : IsProposed(before[i])
                          THEN <<>>
                          ELSE <<PlanStep("SET_STATUS", "PROPOSED")>>)
                      \o <<PlanStep("WAIT_FOR_APPROVAL", "")>>
        IN  audited.steps = InsertAt(plan.steps, pr, ins)

-----------------------------------------------------------------------------
(***************************************************************************)
(* Claims about the ALLOWED_OPS check (SpecEnforce)                        *)
(***************************************************************************)
ErrorPayloads ==
    { events[i].payload : i \in { j \in 1 .. Len(events) :
                                     events[j].type = "ERROR" } }

\* C17: when the audited plan has a step whose op is outside ALLOWED_OPS, no
\* step of the plan is executed, and the invocation ends FAILED after
\* appending one ERROR event with payload "INVALID_OP: <op>", <op> being the
\* first such op.
C17_InvalidOpFailsBeforeExecution ==
    InvalidOps(psteps) # {} =>
        /\ pidx = 0
        /\ ~HasEvent("PR_CREATED")
        /\ ppc \in { "enforce", "invalid_op", "done" }
        /\ ppc = "done" =>
               /\ poutcome = "failed"
               /\ statusAtReturn = "FAILED"
               /\ pwrites = << "FAILED" >>
               /\ perrors = 1
               /\ ErrorPayloads = { "INVALID_OP: " \o FirstInvalidOp(psteps) }

\* C17 witness: a plan whose second step is the first one outside
\* ALLOWED_OPS has ended FAILED
C17_Witness ==
    /\ ppc = "done"
    /\ Len(psteps) >= 2
    /\ InvalidOps(psteps) # {}
    /\ 1 \notin InvalidOps(psteps)
    /\ statusAtReturn = "FAILED"
    /\ "INVALID_OP: RUN_SHELL" \in ErrorPayloads

-----------------------------------------------------------------------------
(***************************************************************************)
(* Claims about the starters of the pipeline (SpecStart)                   *)
(***************************************************************************)
\* C18: at most one thread is inside run_agent_pipeline for the job at any
\* time, whatever run requests and polling workers do.
C18_AtMostOnePipelinePerJob ==
    Cardinality({ e \in DOMAIN spc : InPipeline(e) }) <= 1

-----------------------------------------------------------------------------
(***************************************************************************)
(* Claims about the job events (SpecEvents)                                *)
(***************************************************************************)
\* C19: job events are append-only and ordered: no step changes or removes
\* a row of job_events, and every get_job_events returns the rows in the
\* order in which they were appended, rows of the same second included.
C19_EventsAppendOnlyAndOrdered ==
    [][ /\ Len(rows') >= Len(rows)
        /\ \A i \in 1 .. Len(rows) : rows'[i] = rows[i]
        /\ \A i \in 1 .. Len(listing') : listing'[i] = i ]_vars

-----------------------------------------------------------------------------
(***************************************************************************)
(* Claims about the repository lifecycle of the pipeline (SpecPipeline)    *)
(***************************************************************************)
\* C20: the checkout is prepared (hard reset) on the job's first invocation
\* only, a later invocation reuses the stored repo_path, and whenever the
\* pipeline goes on to use repo_path it has been established.
C20_CheckoutEstablishedOnceBeforeUse ==
    /\ ppc = "prepare" => runs = 1
    /\ ppc = "analyze" => repo_path # ""

-----------------------------------------------------------------------------
(***************************************************************************)
(* Claims about verify_safe_change (SpecSafety)                            *)
(***************************************************************************)
\* the import statements of a content, at the top level or inside a body
ImportStatements(content) ==
    SelectSeq(content, LAMBDA l : l \in { "import a", "    import b" })

Verified == verdict # <<>>

\* C21: a change that adds or removes an import statement is rejected under
\* every line budget.
C21_ImportChangeRejected ==
    (Verified /\ ImportStatements(new_content) # ImportStatements(old_content))
        => \A m \in Budgets : ~verdict[m].ok

\* the checks of verify_safe_change that come before the line budget
PassesOtherChecks ==
    /\ Verified
    /\ new_content # <<>>
    /\ \A k \in 1 .. Len(new_content) : new_content[k] # "    q('DROP TABLE')"
    /\ Parses(old_content) /\ Parses(new_content)
    /\ imports_signature(new_content) = imports_signature(old_content)
    /\ top_defs_signature(new_content) = top_defs_signature(old_content)

\* the lines the diff of the change adds or removes
AddedPlusRemoved ==
    LET hunk == HunkLines(old_content, new_content)
    IN  Cardinality({ k \in 1 .. Len(hunk) : hunk[k].tag \in { "+", "-" } })

\* C22: a change that passes every other check is accepted exactly under
\* the budgets that are at least the number of its added plus removed lines.
C22_AcceptedIffWithinBudget ==
    PassesOtherChecks =>
        \A m \in Budgets : verdict[m].ok <=> (AddedPlusRemoved <= m)

\* an in-body edit accepted at its exact size and rejected one below it
C22_Witness ==
    /\ PassesOtherChecks
    /\ \E m \in Budgets :
          /\ m > 0
          /\ AddedPlusRemoved = m
          /\ verdict[m].ok
          /\ ~verdict[m - 1].ok
          /\ verdict[m - 1].reason = "Too many changed lines"

-----------------------------------------------------------------------------
(***************************************************************************)
(* Claims about diagnose_failure (SpecDiagnose)                            *)
(***************************************************************************)
Diagnosed == diagnosis # NoDiagnosis

\* C23: a failure is marked retryable only when its category is NETWORK.
C23_OnlyNetworkRetryable ==
    (Diagnosed /\ diagnosis.retryable) => diagnosis.category = "NETWORK"

\* the failure text names a refused or dropped connection
ConnectionRefusedNamed ==
    \E k \in 1 .. Len(fctx.exception_message) + Len(fctx.trace_tail) :
        (fctx.exception_message \o fctx.trace_tail)[k]
            \in { "connection refused", "econnrefused", "socket hang up" }

\* C23 as amended: a failure is retryable exactly when its category is
\* NETWORK, or its category is VERIFICATION_HTTP and its text names a
\* refused or dropped connection.
C23_RetryableNetworkOrRefusedVerification ==
    Diagnosed =>
        (diagnosis.retryable <=>
            \/ diagnosis.category = "NETWORK"
            \/ /\ diagnosis.category = "VERIFICATION_HTTP"
               /\ ConnectionRefusedNamed)

\* a rejected push, not retryable, and a refused HTTP verification, retryable
C23_Witness ==
    /\ Diagnosed
    /\ \/ diagnosis.category = "GIT_PUSH_REJECTED" /\ ~diagnosis.retryable
       \/ /\ diagnosis.category = "VERIFICATION_HTTP" /\ diagnosis.retryable
          /\ fctx.op = "COMMIT_PUSH_PR"

-----------------------------------------------------------------------------
(***************************************************************************)
(* Claims about the blast-radius penalty (SpecConfidence)                  *)
(***************************************************************************)
\* the all-gates-pass inputs, but for four impacted files
AllPassButImpactedFour ==
    /\ x.used_stack_trace
    /\ x.changed_files_count = 1
    /\ x.impacted_files_count = 4
    /\ x.ast_verified /\ x.safety_verified
    /\ x.used_rule_based /\ ~x.used_llm
    /\ x.file_lines = 120

\* C24: with four impacted files and every other gate passing, the score is
\* below the all-pass score 1.0 by at least the blast-radius penalty 0.20,
\* whether or not the function of the stack trace was resolved.
C24_ImpactedFourCostsPenalty ==
    (scored /\ AllPassButImpactedFour) => score <= 80

-----------------------------------------------------------------------------
(***************************************************************************)
(* Claims about plan-level failures and terminal statuses (SpecPipeline)   *)
(***************************************************************************)
\* the plan under execution ends in SET_STATUS(FAILED): a forced failure of
\* the auditor, or the planner's plan for add_feature or an unsupported
\* action
PlanLevelFailure ==
    /\ psteps # <<>>
    /\ psteps[Len(psteps)].op = "SET_STATUS"
    /\ psteps[Len(psteps)].arg = "FAILED"

\* C25: when the plan is a plan-level failure, the job's status when
\* run_agent_pipeline returns is FAILED.
C25_PlanFailureEndsFailed ==
    (ppc = "done" /\ PlanLevelFailure) => statusAtReturn = "FAILED"

\* C26: COMPLETED and ABORTED are absorbing: no control request and no run
\* request changes a status that is COMPLETED or ABORTED.
C26_TerminalStatusAbsorbing ==
    [][ (/\ status \in { "COMPLETED", "ABORTED" }
         /\ (ctlCount' # ctlCount \/ runs' # runs))
            => status' = status ]_vars

-----------------------------------------------------------------------------
(***************************************************************************)
(* Claims about the blocking waits (SpecWait, SpecWaitFair)                *)
(***************************************************************************)
\* the event that answers the open wait
AwaitedType == IF waiter.kind = "event" THEN "APPROVED" ELSE "USER_INPUT"

\* C27: a wait returns only on a response appended after the question or
\* proposal that opened it.
C27_WaitNeedsFreshResponse ==
    [][ (waiter.pc = "polling" /\ waiter'.pc = "returned")
            => \E k \in waiter.opened + 1 .. Len(wlog) :
                  wlog[k] = AwaitedType ]_vars

EventWaitOpen == waiter.pc = "polling" /\ waiter.kind = "event"

\* C28: wait_for_event returns only with the awaited event in the log, an
\* iteration that finds the status ABORTED raises whether or not the event
\* is there, and the wait ends once the event is appended or the status
\* stays ABORTED.
C28_WaitForEventTerminates ==
    /\ [][ (EventWaitOpen /\ waiter'.pc = "returned")
               => Logged("APPROVED") ]_vars
    /\ [][ (EventWaitOpen /\ wstatus = "ABORTED" /\ waiter' # waiter)
               => waiter'.pc = "raised" ]_vars
    /\ (<>Logged("APPROVED") \/ <>[](wstatus = "ABORTED"))
           => (EventWaitOpen ~> ~EventWaitOpen)

\* the wait was cancelled although the approval is in the log
C28_Witness ==
    /\ waiter.kind = "event" /\ waiter.pc = "raised"
    /\ Logged("APPROVED")
    /\ wstatus = "ABORTED"

-----------------------------------------------------------------------------
(***************************************************************************)
(* Claims about the scope re-check and the verification note (SpecAudit)   *)
(***************************************************************************)
\* the plan that reaches the governance step: the input, or the input
\* without its refused steps when the permission rewrite kept it
Ungated(p, pol) == PermissionRewrite(p, pol).plan

Gated(p, pol) == audit_pr_governance(Ungated(p, pol), pol)

\* the input is within scope, the rewrite did not fail it, governance
\* injected steps, and the gated plan is over a scope limit
InjectionBreaksScope ==
    /\ apc = "audited"
    /\ WithinScope(plan, policy)
    /\ ~PermissionRewrite(plan, policy).fail
    /\ Len(Gated(plan, policy).steps) > Len(Ungated(plan, policy).steps)
    /\ ~WithinScope(Gated(plan, policy), policy)

\* C29: a plan within max_steps before governance injection that the injected
\* CAPTURE_DIFF / SET_STATUS(PROPOSED) / WAIT_FOR_APPROVAL steps push over a
\* scope limit yields the forced-failure plan, with an AUDIT_FAIL reason
\* prefixed 'post-rewrite:' as the last note; neither the over-limit gated
\* plan nor the ungated plan is returned.
C29_PostRewriteScopeFailure ==
    InjectionBreaksScope =>
        /\ IsForcedFailure(audited)
        /\ Len(audited.notes) > 0
        /\ LET n == audited.notes[Len(audited.notes)]
           IN  n.tag = "AUDIT_FAIL" /\ n.post /\ n.reason = "plan too large"
        /\ audited.steps # Gated(plan, policy).steps
        /\ audited.steps # Ungated(plan, policy).steps

\* C29 witness: a plan of MaxPlanLen steps that the lax limits accept and that
\* the three injected steps push over max_steps
C29_Witness ==
    /\ InjectionBreaksScope
    /\ Len(plan.steps) = MaxPlanLen
    /\ Len(Gated(plan, policy).steps) = Len(plan.steps) + 3
    /\ IsForcedFailure(audited)

HasVerify(p) == \E i \in 1 .. Len(p.steps) : p.steps[i].op \in VERIFY_OPS

WaitBeforeCommit(p) ==
    \E i \in 1 .. FirstIndex(p.steps, "COMMIT_PUSH_PR") :
        p.steps[i].op = "WAIT_FOR_APPROVAL"

NoVerifyNoted(p) ==
    \E k \in 1 .. Len(p.notes) :
        /\ p.notes[k].tag = "AUDIT_NOTE"
        /\ p.notes[k].reason = "no VERIFY ops present; relying on approval gate"

\* C30: under every policy with require_verification_for_pr, a plan with
\* COMMIT_PUSH_PR and no VERIFY_* step that the audit does not fail on other
\* grounds comes back with a WAIT_FOR_APPROVAL step before the commit step and
\* with an AUDIT_NOTE saying that no verify ops are present.
C30_UnverifiedPrGatedAndNoted ==
    ( /\ apc = "audited"
      /\ policy.require_verification_for_pr
      /\ plan_has_op(plan, "COMMIT_PUSH_PR")
      /\ ~HasVerify(plan)
      /\ WithinScope(plan, policy)
      /\ ~PermissionRewrite(plan, policy).fail
      /\ WithinScope(Gated(plan, policy), policy) )
    => /\ ~IsForcedFailure(audited)
       /\ WaitBeforeCommit(audited)
       /\ NoVerifyNoted(audited)

-----------------------------------------------------------------------------
(***************************************************************************)
(* Claims about the audit trail in the notes (SpecAudit)                   *)
(***************************************************************************)
AuditMarkers == {"AUDIT_FAIL", "AUDIT_REWRITE", "AUDIT_NOTE"}

MarkersOf(p) == {k \in 1 .. Len(p.notes) : p.notes[k].tag \in AuditMarkers}

\* C31: whenever the steps returned by audit_plan differ from the input steps
\* (stripped, governance steps inserted, or replaced by the forced-failure
\* plan), the returned notes carry an audit marker (AUDIT_FAIL, AUDIT_REWRITE
\* or AUDIT_NOTE) that the input notes did not carry.
C31_NoSilentRewrite ==
    (apc = "audited" /\ audited.steps # plan.steps) =>
        /\ Len(audited.notes) > Len(plan.notes)
        /\ Cardinality(MarkersOf(audited)) > Cardinality(MarkersOf(plan))

-----------------------------------------------------------------------------
(***************************************************************************)
(* Claims about the retried categories and their priority (SpecRetry)      *)
(***************************************************************************)
\* C32: should_retry is true only for an outcome of category infra, flaky or
\* unknown; for unit_fail and legit it is false for every attempt count.
C32_OnlyInfraFlakyUnknownRetry ==
    (rpc = "decided" /\ decision.should_retry) =>
        /\ outcome # NoOutcome
        /\ outcome.category \in { "infra", "flaky", "unknown" }

LoweredExcerpt(ev) == [k \in 1 .. Len(ev.excerpt) |-> Lower(ev.excerpt[k])]

InfraWords(ev) ==
    \E w \in { "timeout", "network", "infra", "runner", "cache fail" } :
        InMsg(w, LoweredExcerpt(ev))

FlakyWords(ev) ==
    \E w \in { "flake", "flaky", "random" } : InMsg(w, LoweredExcerpt(ev))

Categories == { "infra", "flaky", "unit_fail", "legit", "unknown" }

\* C33: the category is decided by the first rule that matches, in the order
\* infra vocabulary, flaky vocabulary, failing tests without failing files
\* (unit_fail), failing files (legit), unknown; every evidence value gets
\* exactly one of the five categories.
C33_ClassificationPriority ==
    outcome # NoOutcome =>
        /\ outcome.category \in Categories
        /\ InfraWords(evidence) => outcome.category = "infra"
        /\ (~InfraWords(evidence) /\ FlakyWords(evidence)) =>
               outcome.category = "flaky"
        /\ (~InfraWords(evidence) /\ ~FlakyWords(evidence)) =>
               /\ (evidence.n_files = 0 /\ evidence.n_tests > 0) =>
                      outcome.category = "unit_fail"
               /\ evidence.n_files > 0 => outcome.category = "legit"
               /\ (evidence.n_files = 0 /\ evidence.n_tests = 0) =>
                      outcome.category = "unknown"

\* C33 witness: an excerpt with an infra word and a flaky word, failing tests
\* and failing files, classified infra
C33_Witness ==
    /\ rpc = "classified"
    /\ InfraWords(evidence) /\ FlakyWords(evidence)
    /\ evidence.n_files > 0 /\ evidence.n_tests > 0
    /\ outcome.category = "infra"

-----------------------------------------------------------------------------
(***************************************************************************)
(* Claims about the proposal gate (SpecGate)                               *)
(***************************************************************************)
\* C34: should_enter_proposal_mode returns APPLY only if the confidence is
\* 1.0, the change is single-file (changed_files_count <= 1) and it does not
\* touch a sensitive area; in every other case it returns PROPOSE.
C34_ApplyOnlyConfidentSingleFileNotSensitive ==
    gmode # "" =>
        /\ gmode \in { "APPLY", "PROPOSE" }
        /\ gmode = "APPLY" =>
               /\ gin.confidence = 100
               /\ gin.changed_files_count <= 1
               /\ ~gin.touches_sensitive_area

-----------------------------------------------------------------------------
(***************************************************************************)
(* Claims about the strict planner (SpecPlanner)                           *)
(***************************************************************************)
StepOps(p) == [i \in 1 .. Len(p.steps) |-> p.steps[i].op]

FailedPair(p) ==
    /\ Len(p.steps) = 2
    /\ p.steps[1].op = "ANALYZE_REPO"
    /\ p.steps[2] = Step("SET_STATUS", << <<"status", "FAILED">> >>)

WellShaped(p) ==
    /\ Len(p.steps) > 0
    /\ p.steps[1].op = "ANALYZE_REPO"
    /\ \A i \in 1 .. Len(p.steps) : p.steps[i].op \in ALLOWED_OPS
    /\ paction \notin SUPPORTED_ACTIONS => (FailedPair(p) /\ p.notes # "")

\* C35: for an action outside the supported set the plan is exactly
\* [ANALYZE_REPO, SET_STATUS(FAILED)] with a non-empty note; for every action
\* the plan starts with ANALYZE_REPO, has only ops of ALLOWED_OPS, and two
\* calls with the same action give the same op sequence whatever the prompt,
\* the repo facts and the intent object are.
C35_PlanShapeFromActionAlone ==
    /\ pplan_a # NoStrictPlan => WellShaped(pplan_a)
    /\ pplan_b # NoStrictPlan => WellShaped(pplan_b)
    /\ (pplan_a # NoStrictPlan /\ pplan_b # NoStrictPlan) =>
           StepOps(pplan_a) = StepOps(pplan_b)

\* C35 witness: an unsupported action that differs from a supported one by
\* its case only, planned twice with different prompts, intents and facts
C35_Witness ==
    /\ paction = "FIX_BUGS"
    /\ pargs_a.prompt # pargs_b.prompt
    /\ pargs_a.intent_obj # pargs_b.intent_obj
    /\ pargs_a.repo_facts # pargs_b.repo_facts
    /\ FailedPair(pplan_a) /\ FailedPair(pplan_b)
    /\ pplan_a.steps # pplan_b.steps

-----------------------------------------------------------------------------
(***************************************************************************)
(* Claims about asking the user (SpecBlock)                                *)
(***************************************************************************)
QuestionLogged == \E k \in 1 .. Len(blog) : blog[k] = "QUESTION"

\* the first half of C36 alone: BLOCKED is never visible before the QUESTION
QuestionBeforeBlocked == bstatus = "BLOCKED" => QuestionLogged

\* C36: whenever the status is BLOCKED the QUESTION event is already in the
\* log, and once wait_for_user_input has returned an input the status is no
\* longer BLOCKED, in every interleaving with provide_input requests.
C36_QuestionPublishedAndInputUnblocks ==
    /\ QuestionBeforeBlocked
    /\ bpipe = "returned" => bstatus # "BLOCKED"

-----------------------------------------------------------------------------
(***************************************************************************)
(* Claims about the unattended path of the issue pipeline (SpecIssue)      *)
(***************************************************************************)
\* C37: in main.run the decision is APPLY only for a change that passes all
\* eight strict gates: trace-based resolution, single file, no impacted
\* file, AST pass, safety pass, rule-based fix, no LLM, and a file of at most
\* 300 lines.
C37_ApplyOnlyThroughEightGates ==
    (PassEnded /\ ichange.generated /\ ichange.mode = "APPLY") =>
        ichange.strict

-----------------------------------------------------------------------------
(***************************************************************************)
(* Claims about the gates of the CI watcher (SpecWatcher)                  *)
(***************************************************************************)
\* the exits of a cycle that lie behind every gate of the loop body: the
\* policy allowed the retry, a fix was produced, the safety check did not
\* fail, the confidence is at least 0.25 and the target is not sensitive
BehindAllGates == { "committed", "commit_failed" }

CommitsBehindGates ==
    [][ /\ commits' > commits => (ci_mode >= 2 /\ wpath' \in BehindAllGates)
        /\ ci_mode <= 1 => commits' = commits ]_vars

-----------------------------------------------------------------------------
(***************************************************************************)
(* Claims about the job row under concurrent writers (SpecTrail)           *)
(***************************************************************************)
\* the pipeline wrote RUNNING and has not yet written its final status
PipelineExecuting == tpipe \in { "running_written", "executing" }

\* C39: opening the store while the job's pipeline is running does not change
\* the job's status: a job whose pipeline is still executing is FAILED only
\* through its own pipeline or an explicit control action, never through the
\* clean-up that init_db runs for a request's get_store.
C39_OpeningStoreKeepsRunningJob ==
    /\ [][ (\E k \in 1 .. MaxCallers :
               treq[k].pc = "idle" /\ treq'[k].kind = "open")
           => tstatus' = tstatus ]_vars
    /\ [][ (PipelineExecuting /\ tstatus # "FAILED" /\ tstatus' = "FAILED")
           => twriter' \in { "pipeline", "control" } ]_vars

StatusEvents == SelectSeq(tlog, LAMBDA e : e.type = "STATUS")

UpdateInProgress ==
    \/ tpipe \in { "running_written", "completed_written", "failed_written" }
    \/ \E k \in 1 .. MaxCallers : treq[k].pc \in { "appended", "written" }

\* C40: every change of the job's status comes with an appended event, and
\* whenever no status update is in progress the payload of the most recent
\* STATUS event equals the job's status, in every interleaving of the
\* pipeline thread and the control requests.
C40_EventLogFollowsStatus ==
    /\ [][ tstatus' # tstatus =>
             \/ Len(tlog') > Len(tlog)
             \/ UpdateInProgress \/ UpdateInProgress' ]_vars
    /\ [][ (~UpdateInProgress' /\ Len(StatusEvents') > 0) =>
             StatusEvents'[Len(StatusEvents')].payload = tstatus' ]_vars

\* the interleaving of two update_agent_job_status calls alone: no request
\* came through get_store or job_update_status, no update is in progress,
\* and the latest STATUS event still names another status
TwoUpdatersAgree ==
    ( /\ ~UpdateInProgress
      /\ \A k \in 1 .. MaxCallers : treq[k].kind \in { "", "dash_abort" }
      /\ Len(StatusEvents) > 0 )
    => StatusEvents[Len(StatusEvents)].payload = tstatus

====
